---- MODULE Spec2Model ----
(***************************************************************************)
(* Pixel Prompt backend: the session record store (jobs/manager.py), the   *)
(* /generate fan-out (lambda_function.py), the status derivation and the   *)
(* S3-backed rate limiter (utils/rate_limit.py).                           *)
(*                                                                         *)
(* Every S3 call (get_object, put_object) is one atomic step; what a       *)
(* thread computes on its own copy between two S3 calls is part of the     *)
(* step that made the first call.                                          *)
(***************************************************************************)
EXTENDS Integers, Sequences, FiniteSets, TLC

\* ------------------------------------------------------------------ bounds
\* Number of model columns the deployment enables (at most the 4 of MODELS).
MaxEnabled == 3

\* ------------------------------------------------------- program constants
MAX_RETRIES == 3
MAX_ITERATIONS == 7

MODEL_ORDER == <<"flux", "recraft", "gemini", "openai">>
ModelNames == {MODEL_ORDER[i] : i \in 1..Len(MODEL_ORDER)}
SessionIds == {"s1"}

\* Python's None for a missing object, and for an absent dict key.
None == [none |-> TRUE]
NoValue == <<>>

\* ------------------------------------------------------ session records
\* A column that starts pending whether or not its model is enabled.
NewModel_mut(is_enabled) ==
    [enabled |-> is_enabled,
     status |-> "pending",
     iterationCount |-> 0,
     iterations |-> <<>>]

NewModel(is_enabled) ==
    [enabled |-> is_enabled,
     status |-> IF is_enabled THEN "pending" ELSE "disabled",
     iterationCount |-> 0,
     iterations |-> <<>>]

NewSession(enabled) ==
    [status |-> "pending",
     version |-> 1,
     models |-> [m \in ModelNames |-> NewModel(m \in enabled)]]

\* An iteration numbered from 1.
NewIteration_mut(idx) ==
    [index |-> idx + 1, status |-> "in_progress", imageKey |-> NoValue,
     error |-> NoValue, duration |-> NoValue]

NewIteration(idx) ==
    [index |-> idx, status |-> "in_progress", imageKey |-> NoValue,
     error |-> NoValue, duration |-> NoValue]

\* Position of the first iteration whose 'index' equals idx, 0 when none.
FindIteration(iterations, idx) ==
    LET hits == {k \in 1..Len(iterations) : iterations[k].index = idx}
    IN IF hits = {} THEN 0 ELSE CHOOSE k \in hits : \A j \in hits : k <= j

compute_model_status(model_data) ==
    IF ~model_data.enabled THEN "disabled"
    ELSE LET its == model_data.iterations
             has(s) == \E k \in 1..Len(its) : its[k].status = s
         IN IF Len(its) = 0 THEN "pending"
            ELSE IF has("in_progress") THEN "in_progress"
            ELSE IF has("error") /\ ~has("completed") THEN "error"
            ELSE IF has("error") THEN "partial"
            ELSE "completed"

\* A derivation that calls a session failed as soon as one model is in error.
compute_session_status_mut(sess) ==
    LET enabled_models == {m \in ModelNames : sess.models[m].enabled}
        st(m) == sess.models[m].status
    IN IF enabled_models = {} THEN "failed"
       ELSE IF \A m \in enabled_models : st(m) = "pending" THEN "pending"
       ELSE IF \E m \in enabled_models : st(m) = "in_progress" THEN "in_progress"
       ELSE IF \E m \in enabled_models : st(m) \in {"error", "failed"} THEN "failed"
       ELSE "completed"

compute_session_status(sess) ==
    LET enabled_models == {m \in ModelNames : sess.models[m].enabled}
        st(m) == sess.models[m].status
        error_count == Cardinality({m \in enabled_models : st(m) \in {"error", "failed"}})
    IN IF enabled_models = {} THEN "failed"
       ELSE IF \A m \in enabled_models : st(m) = "pending" THEN "pending"
       ELSE IF \E m \in enabled_models : st(m) = "in_progress" THEN "in_progress"
       ELSE IF error_count = Cardinality(enabled_models) THEN "failed"
       ELSE IF error_count > 0 THEN "partial"
       ELSE "completed"

\* An add_iteration without the iteration limit.
add_iteration_raises_mut(sess, model) ==
    IF sess = None THEN "Session not found"
    ELSE IF model \notin DOMAIN sess.models THEN "Unknown model"
    ELSE IF ~sess.models[model].enabled THEN "Model is disabled"
    ELSE ""

\* What add_iteration raises on the record it read ("" when it goes on).
add_iteration_raises(sess, model) ==
    IF sess = None THEN "Session not found"
    ELSE IF model \notin DOMAIN sess.models THEN "Unknown model"
    ELSE IF ~sess.models[model].enabled THEN "Model is disabled"
    ELSE IF sess.models[model].iterationCount >= MAX_ITERATIONS THEN "Iteration limit reached"
    ELSE ""

\* add_iteration without the recomputation of the session's status.
add_iteration_apply_mut(sess, model) ==
    LET md == sess.models[model]
        idx == md.iterationCount
        md2 == [md EXCEPT !.iterations = Append(@, NewIteration(idx)),
                          !.iterationCount = idx + 1,
                          !.status = "in_progress"]
        s2 == [sess EXCEPT !.models[model] = md2]
    IN [s2 EXCEPT !.version = sess.version + 1]

\* The record add_iteration builds from the one it read.
add_iteration_apply(sess, model) ==
    LET md == sess.models[model]
        idx == md.iterationCount
        md2 == [md EXCEPT !.iterations = Append(@, NewIteration(idx)),
                          !.iterationCount = idx + 1,
                          !.status = "in_progress"]
        s2 == [sess EXCEPT !.models[model] = md2]
    IN [s2 EXCEPT !.status = compute_session_status(s2),
                  !.version = sess.version + 1]

\* What complete_iteration / fail_iteration raise on the record they read.
update_iteration_raises(sess, model, idx) ==
    IF sess = None THEN "Session not found"
    ELSE IF model \notin DOMAIN sess.models THEN "KeyError"
    ELSE IF FindIteration(sess.models[model].iterations, idx) = 0 THEN "Iteration not found"
    ELSE ""

complete_iteration_apply(sess, model, idx, key, dur) ==
    LET md == sess.models[model]
        k == FindIteration(md.iterations, idx)
        md1 == [md EXCEPT !.iterations[k].status = "completed",
                          !.iterations[k].imageKey = key,
                          !.iterations[k].duration = dur]
        md2 == [md1 EXCEPT !.status = compute_model_status(md1)]
        s2 == [sess EXCEPT !.models[model] = md2]
    IN [s2 EXCEPT !.status = compute_session_status(s2),
                  !.version = sess.version + 1]

fail_iteration_apply(sess, model, idx, err) ==
    LET md == sess.models[model]
        k == FindIteration(md.iterations, idx)
        md1 == [md EXCEPT !.iterations[k].status = "error",
                          !.iterations[k].error = err]
        md2 == [md1 EXCEPT !.status = compute_model_status(md1)]
        s2 == [sess EXCEPT !.models[model] = md2]
    IN [s2 EXCEPT !.status = compute_session_status(s2),
                  !.version = sess.version + 1]

\* _save_status_with_version's test on the record it re-reads.
version_conflict(current, expected_version) ==
    current # None /\ current.version # expected_version

\* ------------------------------------------------------------- the state
VARIABLES
    s3_sessions,       \* object store: sessions/{id}/status.json, or None
    main_pc,           \* handle_generate: "start", "fanout", "returned"
    session_id,        \* the id create_session returned (None before)
    enabled_models,    \* names get_enabled_models() returns
    pc,                \* per worker thread (one per model): position
    op,                \* per worker: the SessionManager call it is inside
    attempt,           \* per worker: the call's loop variable
    session,           \* per worker: the call's local copy of the record
    original_version,  \* per worker: the version the call read
    iteration_index,   \* per worker: index add_iteration returned (-1 before)
    image_key,         \* per worker: key upload_image returned
    results,           \* handle_generate's results dict
    adapter,           \* history: what the worker's handler call did
    call_done,         \* history: SessionManager calls that returned normally
    exhausted,         \* history: the worker took the forced save
    numWrites,         \* history: put_object calls made on the session record
    \* _compute_session_status applied to a record
    status_models,     \* the 'models' of the record it is applied to
    status_result,     \* what it returned ("none" before the call)
    \* the rate limiter
    now,               \* the clock, in seconds
    jumps,             \* history: how often the clock has been advanced
    rl_s3,             \* object store: rate-limit/ratelimit.json, or None
    cache_data,        \* per limiter process: _rate_limit_cache['data']
    cache_timestamp,   \* per limiter process: _rate_limit_cache['timestamp']
    rl_pc,             \* per limiter process: position in check_rate_limit
    rl_ip,             \* per limiter process: the call's ip_address
    rl_timestamp,      \* per limiter process: the call's timestamp
    rl_result,         \* per limiter process: what its last call returned
    calls,             \* history: check_rate_limit calls started
    admitted,          \* history: the calls that returned False (allowed)
    last_call,         \* history: the call that returned last, and what
                       \* handle_generate did with its result
    \* /generate followed by /iterate requests, one unit at a time
    it_store,          \* sessions/{id}/status.json, or None
    it_pc,             \* "idle", or "handler" between add_iteration and the outcome
    it_model,          \* the model of the unit in flight
    it_index,          \* the index its add_iteration returned
    it_requests,       \* history: units started so far
    \* add_entry calls on one context object
    ctx_s3,            \* sessions/{id}/context/{model}.json: whether it exists, its window
    ctx_pc,            \* per caller: "idle", "get", "put", "force"
    ctx_entry,         \* per caller: the entry of its add_entry call
    ctx_entries,       \* per caller: the local list 'entries'
    ctx_etag,          \* per caller: the ETag it read, if it read one
    ctx_attempt,       \* per caller: the loop variable
    ctx_calls,         \* history: add_entry calls started
    ctx_appended,      \* history: the entries of the calls that returned, in order
    ctx_forced,        \* history: some call ended with the unconditional write
    ctx_read_failed,   \* history: some read of the existing object failed
    \* SessionManager calls with any arguments, by concurrent callers
    mg_store,          \* per session id: sessions/{id}/status.json, or None
    mg_pc,             \* per caller: "idle", "read", "check", "put", "force"
    mg_call,           \* per caller: the call it is inside and its arguments (NoCall outside)
    mg_session,        \* per caller: the call's local copy of the record
    mg_version,        \* per caller: original_version
    mg_attempt,        \* per caller: the loop variable
    mg_result,         \* per caller: how its last call ended ("none" inside a call)
    mg_writes,         \* history, per caller: put_object calls of its current call
    mg_calls,          \* history: calls started
    mg_index,          \* what the caller's last add_iteration returned
    mg_forced,         \* history: the caller's last call ended with the forced save
    \* one unit's failure, from the exception to the session record
    er_pc,             \* "start", "fail" (fail_iteration next), "mark" (mark_model_error next), "done"
    er_raw,            \* the message of the exception that was raised
    er_error,          \* the error text handed to the record store
    er_response,       \* the error text returned to the client
    er_store,          \* the unit's session record
    \* one fan-out through a ThreadPoolExecutor
    pl_pc,             \* "start", "submitting", "waiting", "returned"
    pl_kind,           \* which fan-out: "execute_job" or "handle_generate"
    pl_n,              \* number of units in the list
    pl_threads,        \* worker threads the pool has started
    pl_state,          \* per unit: "unsubmitted", "queued", "running", "done"
    pl_started,        \* history: per unit, times its task began to run
    \* one call of a function wrapped by retry_with_backoff
    rt_pc,             \* "start", "calling", "sleeping", "returned", "raised"
    rt_max_retries,    \* the decorator's max_retries
    rt_attempt,        \* the loop variable
    rt_outcomes,       \* history: what each invocation of func did
    rt_result          \* what the wrapper returned or raised

sessVars == <<s3_sessions, main_pc, session_id, enabled_models, pc, op, attempt,
              session, original_version, iteration_index, image_key, results,
              adapter, call_done, exhausted, numWrites>>

statusVars == <<status_models, status_result>>

rateVars == <<now, jumps, rl_s3, cache_data, cache_timestamp, rl_pc, rl_ip,
              rl_timestamp, rl_result, calls, admitted, last_call>>

iterVars == <<it_store, it_pc, it_model, it_index, it_requests>>

ctxVars == <<ctx_s3, ctx_pc, ctx_entry, ctx_entries, ctx_etag, ctx_attempt,
             ctx_calls, ctx_appended, ctx_forced, ctx_read_failed>>

mgrVars == <<mg_store, mg_pc, mg_call, mg_session, mg_version, mg_attempt,
             mg_result, mg_writes, mg_calls, mg_index, mg_forced>>

errVars == <<er_pc, er_raw, er_error, er_response, er_store>>

poolVars == <<pl_pc, pl_kind, pl_n, pl_threads, pl_state, pl_started>>

retryVars == <<rt_pc, rt_max_retries, rt_attempt, rt_outcomes, rt_result>>

vars == <<sessVars, statusVars, rateVars, iterVars, ctxVars, mgrVars, errVars, poolVars,
          retryVars>>

nonSessVars == <<statusVars, rateVars, iterVars, ctxVars, mgrVars, errVars, poolVars,
    retryVars>>
nonStatusVars == <<sessVars, rateVars, iterVars, ctxVars, mgrVars, errVars, poolVars,
    retryVars>>
nonRateVars == <<sessVars, statusVars, iterVars, ctxVars, mgrVars, errVars, poolVars,
    retryVars>>
nonIterVars == <<sessVars, statusVars, rateVars, ctxVars, mgrVars, errVars, poolVars,
    retryVars>>
nonCtxVars == <<sessVars, statusVars, rateVars, iterVars, mgrVars, errVars, poolVars,
    retryVars>>
nonMgrVars == <<sessVars, statusVars, rateVars, iterVars, ctxVars, errVars, poolVars,
    retryVars>>
nonErrVars == <<sessVars, statusVars, rateVars, iterVars, ctxVars, mgrVars, poolVars,
    retryVars>>
nonPoolVars == <<sessVars, statusVars, rateVars, iterVars, ctxVars, mgrVars, errVars,
    retryVars>>
nonRetryVars == <<sessVars, statusVars, rateVars, iterVars, ctxVars, mgrVars, errVars,
    poolVars>>

\* The key upload_image builds for a model's iteration, and the text a handler
\* reports on failure: each unit has its own.
ImageKeyOf(model, idx) == <<"image", model, idx>>
ErrorOf(model) == <<"handler error", model>>
DurationOf(model) == <<"seconds", model>>

\* Every handler of models/handlers.py wraps its body in try/except Exception
\* and returns the error shape, so a call returns one of the two shapes or, when
\* the provider never answers, does not return.
HandlerOutcomes == {"success", "error", "hang"}

NoResult == [status |-> "none", imageKey |-> NoValue, error |-> NoValue]

Stored == s3_sessions[session_id]

\* The state of a deployment whose configuration enables `enabled`.
InitSessionWith(enabled) ==
    /\ s3_sessions = [s \in SessionIds |-> None]
    /\ main_pc = "start"
    /\ session_id = None
    /\ enabled_models = enabled
    /\ pc = [m \in ModelNames |-> "idle"]
    /\ op = [m \in ModelNames |-> "none"]
    /\ attempt = [m \in ModelNames |-> 0]
    /\ session = [m \in ModelNames |-> None]
    /\ original_version = [m \in ModelNames |-> 0]
    /\ iteration_index = [m \in ModelNames |-> -1]
    /\ image_key = [m \in ModelNames |-> NoValue]
    /\ results = [m \in ModelNames |-> NoResult]
    /\ adapter = [m \in ModelNames |-> "none"]
    /\ call_done = [m \in ModelNames |-> {}]
    /\ exhausted = [m \in ModelNames |-> FALSE]
    /\ numWrites = 0

\* ------------------------------------------------------ handle_generate
\* create_session, then the submit loop: every enabled model's thread starts
\* generate_for_model, whose first statement is add_iteration.
create_session ==
    /\ main_pc = "start"
    /\ \E sid \in {s \in SessionIds : s3_sessions[s] = None} :
         /\ s3_sessions' = [s3_sessions EXCEPT ![sid] = NewSession(enabled_models)]
         /\ session_id' = sid
    /\ numWrites' = numWrites + 1
    /\ main_pc' = "fanout"
    /\ pc' = [m \in ModelNames |-> IF m \in enabled_models THEN "read" ELSE "idle"]
    /\ op' = [m \in ModelNames |-> IF m \in enabled_models THEN "add_iteration" ELSE "none"]
    /\ UNCHANGED <<enabled_models, attempt, session, original_version,
                   iteration_index, image_key, results, adapter, call_done, exhausted>>
    /\ UNCHANGED nonSessVars

\* generate_for_model's "except Exception": the thread returns an error result
\* and makes no further call.
ReturnError(w, msg) ==
    /\ pc' = [pc EXCEPT ![w] = "returned"]
    /\ op' = [op EXCEPT ![w] = "none"]
    /\ results' = [results EXCEPT ![w] = [status |-> "error", imageKey |-> NoValue, error |-> msg]]

\* A SessionManager call's locals end with the call.
DropLocals(w) ==
    /\ session' = [session EXCEPT ![w] = None]
    /\ original_version' = [original_version EXCEPT ![w] = 0]
    /\ attempt' = [attempt EXCEPT ![w] = 0]

\* One pass of add_iteration's loop up to the call of _save_status_with_version.
add_iteration_read(w) ==
    /\ pc[w] = "read" /\ op[w] = "add_iteration"
    /\ LET raises == add_iteration_raises(Stored, w)
       IN IF raises # ""
          THEN /\ ReturnError(w, raises)
               /\ DropLocals(w)
               /\ UNCHANGED iteration_index
          ELSE /\ session' = [session EXCEPT ![w] = add_iteration_apply(Stored, w)]
               /\ original_version' = [original_version EXCEPT ![w] = Stored.version]
               /\ iteration_index' = [iteration_index EXCEPT ![w] = Stored.models[w].iterationCount]
               /\ pc' = [pc EXCEPT ![w] = "check"]
               /\ UNCHANGED <<op, results, attempt>>
    /\ UNCHANGED <<s3_sessions, main_pc, session_id, enabled_models,
                   image_key, adapter, call_done, exhausted, numWrites>>
    /\ UNCHANGED nonSessVars

\* One pass of complete_iteration's loop up to _save_status_with_version.
complete_iteration_read(w) ==
    /\ pc[w] = "read" /\ op[w] = "complete_iteration"
    /\ LET raises == update_iteration_raises(Stored, w, iteration_index[w])
       IN IF raises # ""
          THEN /\ ReturnError(w, raises)
               /\ DropLocals(w)
          ELSE /\ session' = [session EXCEPT ![w] =
                     complete_iteration_apply(Stored, w, iteration_index[w],
                                              image_key[w], DurationOf(w))]
               /\ original_version' = [original_version EXCEPT ![w] = Stored.version]
               /\ pc' = [pc EXCEPT ![w] = "check"]
               /\ UNCHANGED <<op, results, attempt>>
    /\ UNCHANGED <<s3_sessions, main_pc, session_id, enabled_models,
                   iteration_index, image_key, adapter, call_done, exhausted, numWrites>>
    /\ UNCHANGED nonSessVars

\* One pass of fail_iteration's loop up to _save_status_with_version.
fail_iteration_read(w) ==
    /\ pc[w] = "read" /\ op[w] = "fail_iteration"
    /\ LET raises == update_iteration_raises(Stored, w, iteration_index[w])
       IN IF raises # ""
          THEN /\ ReturnError(w, raises)
               /\ DropLocals(w)
          ELSE /\ session' = [session EXCEPT ![w] =
                     fail_iteration_apply(Stored, w, iteration_index[w], ErrorOf(w))]
               /\ original_version' = [original_version EXCEPT ![w] = Stored.version]
               /\ pc' = [pc EXCEPT ![w] = "check"]
               /\ UNCHANGED <<op, results, attempt>>
    /\ UNCHANGED <<s3_sessions, main_pc, session_id, enabled_models,
                   iteration_index, image_key, adapter, call_done, exhausted, numWrites>>
    /\ UNCHANGED nonSessVars

\* _save_status_with_version, first half: get_session and the version test.
\* On a conflict the loop sleeps and goes round again, or runs out.
save_status_with_version_check(w) ==
    /\ pc[w] = "check"
    /\ IF version_conflict(Stored, original_version[w])
       THEN IF attempt[w] + 1 < MAX_RETRIES
            THEN /\ attempt' = [attempt EXCEPT ![w] = @ + 1]
                 /\ pc' = [pc EXCEPT ![w] = "read"]
            ELSE /\ pc' = [pc EXCEPT ![w] = "force"]
                 /\ UNCHANGED attempt
       ELSE /\ pc' = [pc EXCEPT ![w] = "put"]
            /\ UNCHANGED attempt
    /\ UNCHANGED <<s3_sessions, main_pc, session_id, enabled_models, op, session,
                   original_version, iteration_index, image_key, results, adapter,
                   call_done, exhausted, numWrites>>
    /\ UNCHANGED nonSessVars

\* Where generate_for_model goes on when a SessionManager call returns.
AfterCall(w) ==
    /\ call_done' = [call_done EXCEPT ![w] = @ \cup {op[w]}]
    /\ DropLocals(w)
    /\ IF op[w] = "add_iteration"
       THEN /\ pc' = [pc EXCEPT ![w] = "handler"]
            /\ op' = [op EXCEPT ![w] = "none"]
            /\ UNCHANGED results
       ELSE IF op[w] = "complete_iteration"
       THEN /\ pc' = [pc EXCEPT ![w] = "add_entry"]
            /\ op' = [op EXCEPT ![w] = "none"]
            /\ UNCHANGED results
       ELSE ReturnError(w, ErrorOf(w))

\* _save_status_with_version, second half: _save_status (put_object).
save_status_with_version_put(w) ==
    /\ pc[w] = "put"
    /\ s3_sessions' = [s3_sessions EXCEPT ![session_id] = session[w]]
    /\ numWrites' = numWrites + 1
    /\ AfterCall(w)
    /\ UNCHANGED <<main_pc, session_id, enabled_models,
                   iteration_index, image_key, adapter, exhausted>>
    /\ UNCHANGED nonSessVars

\* "Force save on retry exhaustion": _save_status of the last pass's record.
force_save(w) ==
    /\ pc[w] = "force"
    /\ s3_sessions' = [s3_sessions EXCEPT ![session_id] = session[w]]
    /\ numWrites' = numWrites + 1
    /\ exhausted' = [exhausted EXCEPT ![w] = TRUE]
    /\ AfterCall(w)
    /\ UNCHANGED <<main_pc, session_id, enabled_models,
                   iteration_index, image_key, adapter>>
    /\ UNCHANGED nonSessVars

\* handler(config_dict, prompt, {}): returns success or the error shape, or
\* never returns. Nothing bounds the call.
call_handler(w) ==
    /\ pc[w] = "handler"
    /\ \E outcome \in HandlerOutcomes :
         /\ adapter' = [adapter EXCEPT ![w] = outcome]
         /\ IF outcome = "success"
            THEN /\ pc' = [pc EXCEPT ![w] = "upload"]
                 /\ UNCHANGED <<op, results>>
            ELSE IF outcome = "error"
            THEN /\ pc' = [pc EXCEPT ![w] = "read"]
                 /\ op' = [op EXCEPT ![w] = "fail_iteration"]
                 /\ UNCHANGED results
            ELSE /\ pc' = [pc EXCEPT ![w] = "hung"]
                 /\ UNCHANGED <<op, results>>
    /\ UNCHANGED <<s3_sessions, main_pc, session_id, enabled_models, attempt, session,
                   original_version, iteration_index, image_key, call_done,
                   exhausted, numWrites>>
    /\ UNCHANGED nonSessVars

\* image_storage.upload_image: returns the key, or raises when the put fails.
upload_image(w) ==
    /\ pc[w] = "upload"
    /\ \E stored \in BOOLEAN :
         IF stored
         THEN /\ image_key' = [image_key EXCEPT ![w] = ImageKeyOf(w, iteration_index[w])]
              /\ pc' = [pc EXCEPT ![w] = "read"]
              /\ op' = [op EXCEPT ![w] = "complete_iteration"]
              /\ UNCHANGED results
         ELSE /\ ReturnError(w, <<"upload failed", w>>)
              /\ UNCHANGED image_key
    /\ UNCHANGED <<s3_sessions, main_pc, session_id, enabled_models, attempt, session,
                   original_version, iteration_index, adapter, call_done,
                   exhausted, numWrites>>
    /\ UNCHANGED nonSessVars

\* context_manager.add_entry, then the completed result; add_entry raises when
\* its put fails with anything but a precondition failure.
add_entry_and_return(w) ==
    /\ pc[w] = "add_entry"
    /\ \E saved \in BOOLEAN :
         IF saved
         THEN /\ pc' = [pc EXCEPT ![w] = "returned"]
              /\ results' = [results EXCEPT ![w] =
                    [status |-> "completed", imageKey |-> image_key[w], error |-> NoValue]]
              /\ UNCHANGED op
         ELSE ReturnError(w, <<"add_entry failed", w>>)
    /\ UNCHANGED <<s3_sessions, main_pc, session_id, enabled_models, attempt, session,
                   original_version, iteration_index, image_key, adapter, call_done,
                   exhausted, numWrites>>
    /\ UNCHANGED nonSessVars

generate_for_model(w) ==
    \/ add_iteration_read(w)
    \/ complete_iteration_read(w)
    \/ fail_iteration_read(w)
    \/ save_status_with_version_check(w)
    \/ save_status_with_version_put(w)
    \/ force_save(w)
    \/ call_handler(w)
    \/ upload_image(w)
    \/ add_entry_and_return(w)

\* The "with ThreadPoolExecutor" block ends when every future is done.
handle_generate_return ==
    /\ main_pc = "fanout"
    /\ \A m \in enabled_models : pc[m] = "returned"
    /\ main_pc' = "returned"
    /\ UNCHANGED <<s3_sessions, session_id, enabled_models, pc, op, attempt, session,
                   original_version, iteration_index, image_key, results, adapter,
                   call_done, exhausted, numWrites>>
    /\ UNCHANGED nonSessVars

\* -------------------------------------------- _compute_session_status
\* The statuses _compute_model_status gives an enabled model.
ModelStatuses == {"pending", "in_progress", "completed", "error", "partial"}

StatusModel(is_enabled, st) ==
    [enabled |-> is_enabled, status |-> st, iterationCount |-> 0, iterations |-> <<>>]

\* The 'models' of the records the function is called on: add_iteration,
\* complete_iteration and fail_iteration call it on a record whose target model
\* is enabled, so at least one model is.
StatusInputs ==
    {ms \in [ModelNames -> {StatusModel(TRUE, st) : st \in ModelStatuses}
                             \cup {StatusModel(FALSE, "disabled")}] :
        \E m \in ModelNames : ms[m].enabled}

InitStatusIdle ==
    /\ status_models = [m \in ModelNames |-> NewModel(TRUE)]
    /\ status_result = "none"

InitStatus ==
    /\ status_models \in StatusInputs
    /\ status_result = "none"

\* The call made by add_iteration, complete_iteration and fail_iteration, on a
\* record whose own status and version are whatever was read.
compute_session_status_call ==
    /\ status_result = "none"
    /\ \E old \in {"pending", "in_progress", "completed", "partial", "failed"},
          v \in 1..MAX_RETRIES :
          status_result' = compute_session_status(
              [status |-> old, version |-> v, models |-> status_models])
    /\ UNCHANGED status_models
    /\ UNCHANGED nonStatusVars

\* ------------------------------------------------------- the rate limiter
\* bounds of the rate limiter's model
NumLimiters == 2
MaxCalls == 3
MaxJumps == 2
\* GLOBAL_LIMIT and IP_LIMIT of the deployment
global_limit == 2
ip_limit == 1

CACHE_TTL_SECONDS == 5
HourSeconds == 60 * 60
DaySeconds == 24 * HourSeconds

Limiters == 1..NumLimiters
Identities == {"10.0.0.1", "10.0.0.2", "192.168.0.9"}
ip_whitelist == {"192.168.0.9"}

EmptyRateData ==
    [global_requests |-> <<>>, ip_requests |-> [i \in Identities |-> <<>>]]

\* A clean-up that keeps a day of requests in both lists.
cleanup_old_requests_mut(data, t) ==
    LET in_day(ts) == ts > t - DaySeconds
    IN [global_requests |-> SelectSeq(data.global_requests, in_day),
        ip_requests |-> [i \in Identities |-> SelectSeq(data.ip_requests[i], in_day)]]

\* _cleanup_old_requests: keeps the timestamps inside each window. An identity
\* with no timestamp left is the same as one with no key.
cleanup_old_requests(data, t) ==
    LET in_hour(ts) == ts > t - HourSeconds
        in_day(ts) == ts > t - DaySeconds
    IN [global_requests |-> SelectSeq(data.global_requests, in_hour),
        ip_requests |-> [i \in Identities |-> SelectSeq(data.ip_requests[i], in_day)]]

\* _load_rate_data on what get_object returns.
load_rate_data(object) == IF object = None THEN EmptyRateData ELSE object

\* check_rate_limit's two tests on the cleaned data.
over_limit(data, ip) ==
    \/ Len(data.global_requests) >= global_limit
    \/ Len(data.ip_requests[ip]) >= ip_limit

add_current_request(data, ip, ts) ==
    [global_requests |-> Append(data.global_requests, ts),
     ip_requests |-> [data.ip_requests EXCEPT ![ip] = Append(@, ts)]]

\* A handler that goes on to the content filter and create_session whatever
\* check_rate_limit returned.
handle_generate_after_check_mut(result, filtered) ==
    IF result = "raised" THEN "500"
    ELSE IF filtered THEN "400"
    ELSE "create_session"

\* handle_generate after its call of check_rate_limit: 429 when it returned
\* True, the outer "except Exception" (500) when it raised, else the content
\* filter (400) and then create_session.
handle_generate_after_check(result, filtered) ==
    IF result = "limited" THEN "429"
    ELSE IF result = "raised" THEN "500"
    ELSE IF filtered THEN "400"
    ELSE "create_session"

\* The session work of a /generate request that answered with `answer`: only
\* a request that reached create_session writes a session record and submits
\* generate_for_model for the enabled models.
handle_generate_session_work(answer) ==
    IF answer = "create_session"
    THEN [session |-> NewSession(ModelNames), dispatched |-> ModelNames]
    ELSE [session |-> None, dispatched |-> {}]

\* The call of limiter process c for ip returns result at time t.
Returns(c, ip, t, result) ==
    \E filtered \in BOOLEAN :
        LET answer == handle_generate_after_check(result, filtered)
        IN last_call' = [n |-> last_call.n + 1, c |-> c, ip |-> ip, timestamp |-> t,
                         result |-> result,
                         handler |-> answer,
                         work |-> handle_generate_session_work(answer)]

InitRateIdle ==
    /\ last_call = [n |-> 0, c |-> 0, ip |-> "", timestamp |-> 0, result |-> "none",
                    handler |-> "none", work |-> handle_generate_session_work("none")]
    /\ now = 0
    /\ jumps = 0
    /\ rl_s3 = None
    /\ cache_data = [c \in Limiters |-> None]
    /\ cache_timestamp = [c \in Limiters |-> 0]
    /\ rl_pc = [c \in Limiters |-> "idle"]
    /\ rl_ip = [c \in Limiters |-> ""]
    /\ rl_timestamp = [c \in Limiters |-> 0]
    /\ rl_result = [c \in Limiters |-> "none"]
    /\ calls = 0
    /\ admitted = <<>>

\* A limiter that records the whitelisted caller's request like any other.
check_rate_limit_whitelisted_mut(c, ip) ==
    /\ rl_pc[c] = "idle" /\ calls < MaxCalls
    /\ ip \in ip_whitelist
    /\ calls' = calls + 1
    /\ rl_s3' = add_current_request(load_rate_data(rl_s3), ip, now)
    /\ rl_result' = [rl_result EXCEPT ![c] = "allowed"]
    /\ Returns(c, ip, now, "allowed")
    /\ UNCHANGED <<now, jumps, cache_data, cache_timestamp, rl_pc, rl_ip,
                   rl_timestamp, admitted>>
    /\ UNCHANGED nonRateVars

\* A whitelisted caller: lines 78-80.
check_rate_limit_whitelisted(c, ip) ==
    /\ rl_pc[c] = "idle" /\ calls < MaxCalls
    /\ ip \in ip_whitelist
    /\ calls' = calls + 1
    /\ rl_result' = [rl_result EXCEPT ![c] = "allowed"]
    /\ Returns(c, ip, now, "allowed")
    /\ UNCHANGED <<now, jumps, rl_s3, cache_data, cache_timestamp, rl_pc, rl_ip,
                   rl_timestamp, admitted>>
    /\ UNCHANGED nonRateVars

\* get_object fails with something other than NoSuchKey: _load_rate_data
\* re-raises, before the cache is touched.
check_rate_limit_load_fails(c, ip) ==
    /\ rl_pc[c] = "idle" /\ calls < MaxCalls
    /\ ip \notin ip_whitelist
    /\ ~(cache_data[c] # None /\ now - cache_timestamp[c] < CACHE_TTL_SECONDS)
    /\ calls' = calls + 1
    /\ rl_result' = [rl_result EXCEPT ![c] = "raised"]
    /\ Returns(c, ip, now, "raised")
    /\ UNCHANGED <<now, jumps, rl_s3, cache_data, cache_timestamp, rl_pc, rl_ip,
                   rl_timestamp, admitted>>
    /\ UNCHANGED nonRateVars

\* A limiter that counts the request in the store before it tests the limits.
check_rate_limit_check_mut(c, ip) ==
    /\ rl_pc[c] = "idle" /\ calls < MaxCalls
    /\ ip \notin ip_whitelist
    /\ calls' = calls + 1
    /\ LET fresh == cache_data[c] # None
                    /\ now - cache_timestamp[c] < CACHE_TTL_SECONDS
           rate_data == IF fresh THEN cache_data[c] ELSE load_rate_data(rl_s3)
           cleaned == cleanup_old_requests(rate_data, now)
       IN /\ cache_timestamp' = IF fresh THEN cache_timestamp
                                ELSE [cache_timestamp EXCEPT ![c] = now]
          /\ cache_data' = [cache_data EXCEPT ![c] =
                                add_current_request(cleaned, ip, now)]
          /\ IF over_limit(cleaned, ip)
             THEN /\ rl_s3' = add_current_request(cleaned, ip, now)
                  /\ rl_result' = [rl_result EXCEPT ![c] = "limited"]
                  /\ Returns(c, ip, now, "limited")
                  /\ UNCHANGED <<rl_pc, rl_ip, rl_timestamp>>
             ELSE /\ rl_pc' = [rl_pc EXCEPT ![c] = "save"]
                  /\ rl_ip' = [rl_ip EXCEPT ![c] = ip]
                  /\ rl_timestamp' = [rl_timestamp EXCEPT ![c] = now]
                  /\ rl_result' = [rl_result EXCEPT ![c] = "none"]
                  /\ UNCHANGED <<last_call, rl_s3>>
    /\ UNCHANGED <<now, jumps, admitted>>
    /\ UNCHANGED nonRateVars

\* Lines 82-108: load (the cached dict when fresh, else get_object), clean up,
\* test the limits, add the request. rate_data is the cached dict itself, so
\* the clean-up and the appends change the cache in place.
check_rate_limit_check(c, ip) ==
    /\ rl_pc[c] = "idle" /\ calls < MaxCalls
    /\ ip \notin ip_whitelist
    /\ calls' = calls + 1
    /\ LET fresh == cache_data[c] # None
                    /\ now - cache_timestamp[c] < CACHE_TTL_SECONDS
           rate_data == IF fresh THEN cache_data[c] ELSE load_rate_data(rl_s3)
           cleaned == cleanup_old_requests(rate_data, now)
       IN /\ cache_timestamp' = IF fresh THEN cache_timestamp
                                ELSE [cache_timestamp EXCEPT ![c] = now]
          /\ IF over_limit(cleaned, ip)
             THEN /\ cache_data' = [cache_data EXCEPT ![c] = cleaned]
                  /\ rl_result' = [rl_result EXCEPT ![c] = "limited"]
                  /\ Returns(c, ip, now, "limited")
                  /\ UNCHANGED <<rl_pc, rl_ip, rl_timestamp>>
             ELSE /\ cache_data' = [cache_data EXCEPT ![c] =
                                        add_current_request(cleaned, ip, now)]
                  /\ rl_pc' = [rl_pc EXCEPT ![c] = "save"]
                  /\ rl_ip' = [rl_ip EXCEPT ![c] = ip]
                  /\ rl_timestamp' = [rl_timestamp EXCEPT ![c] = now]
                  /\ rl_result' = [rl_result EXCEPT ![c] = "none"]
                  /\ UNCHANGED last_call
    /\ UNCHANGED <<now, jumps, rl_s3, admitted>>
    /\ UNCHANGED nonRateVars

\* _save_rate_data: put_object, then the cache update; check_rate_limit
\* returns False.
save_rate_data(c) ==
    /\ rl_pc[c] = "save"
    /\ rl_s3' = cache_data[c]
    /\ cache_timestamp' = [cache_timestamp EXCEPT ![c] = now]
    /\ admitted' = Append(admitted, [ip |-> rl_ip[c], timestamp |-> rl_timestamp[c]])
    /\ rl_result' = [rl_result EXCEPT ![c] = "allowed"]
    /\ Returns(c, rl_ip[c], rl_timestamp[c], "allowed")
    /\ rl_pc' = [rl_pc EXCEPT ![c] = "idle"]
    /\ UNCHANGED <<now, jumps, cache_data, rl_ip, rl_timestamp, calls>>
    /\ UNCHANGED nonRateVars

\* A limiter that fails open: put_object raises and the call still returns
\* False (allowed).
save_rate_data_fails_mut(c) ==
    /\ rl_pc[c] = "save"
    /\ rl_result' = [rl_result EXCEPT ![c] = "allowed"]
    /\ Returns(c, rl_ip[c], rl_timestamp[c], "allowed")
    /\ rl_pc' = [rl_pc EXCEPT ![c] = "idle"]
    /\ UNCHANGED <<now, jumps, rl_s3, cache_data, cache_timestamp, rl_ip,
                   rl_timestamp, calls, admitted>>
    /\ UNCHANGED nonRateVars

\* put_object raises: the exception leaves check_rate_limit, the request
\* already appended to the cached dict.
save_rate_data_fails(c) ==
    /\ rl_pc[c] = "save"
    /\ rl_result' = [rl_result EXCEPT ![c] = "raised"]
    /\ Returns(c, rl_ip[c], rl_timestamp[c], "raised")
    /\ rl_pc' = [rl_pc EXCEPT ![c] = "idle"]
    /\ UNCHANGED <<now, jumps, rl_s3, cache_data, cache_timestamp, rl_ip,
                   rl_timestamp, calls, admitted>>
    /\ UNCHANGED nonRateVars

\* Time passes: past the cache's lifetime, past an hour, past a day.
advance_clock ==
    /\ jumps < MaxJumps
    /\ \E d \in {1, CACHE_TTL_SECONDS, HourSeconds, DaySeconds} : now' = now + d
    /\ jumps' = jumps + 1
    /\ UNCHANGED <<rl_s3, cache_data, cache_timestamp, rl_pc, rl_ip, rl_timestamp,
                   rl_result, calls, admitted, last_call>>
    /\ UNCHANGED nonRateVars

\* --------------------------------------- /generate, then /iterate requests
\* bounds: models enabled, and units (one /generate unit per enabled model,
\* then /iterate requests) started in a run
MaxIterEnabled == 2
MaxIterRequests == 8

InitIterIdle ==
    /\ it_store = None
    /\ it_pc = "idle"
    /\ it_model = ""
    /\ it_index = -1
    /\ it_requests = 0

\* handle_generate's create_session, for a deployment enabling the first n
\* models.
iterate_create_session ==
    /\ it_store = None
    /\ \E n \in 1..MaxIterEnabled :
         /\ n <= Len(MODEL_ORDER)
         /\ it_store' = NewSession({MODEL_ORDER[i] : i \in 1..n})
    /\ UNCHANGED <<it_pc, it_model, it_index, it_requests>>
    /\ UNCHANGED nonIterVars

\* get_latest_image_key: whether the model has a completed iteration with an
\* image key.
has_latest_image_key(sess, model) ==
    \E k \in 1..Len(sess.models[model].iterations) :
        /\ sess.models[model].iterations[k].status = "completed"
        /\ sess.models[model].iterations[k].imageKey # NoValue

\* /generate has answered (the client knows the session id) once every
\* enabled model's unit has run.
generate_answered(sess) ==
    \A m \in ModelNames : sess.models[m].enabled => sess.models[m].iterationCount > 0

\* A unit starts: generate_for_model's add_iteration for a model not yet
\* dispatched, or, after /generate, handle_iterate up to its add_iteration
\* (the iteration-count test, the source image, then add_iteration).
start_unit(m) ==
    /\ it_pc = "idle" /\ it_store # None
    /\ it_requests < MaxIterRequests
    /\ \/ /\ ~generate_answered(it_store)
          /\ it_store.models[m].enabled
          /\ it_store.models[m].iterationCount = 0
       \/ /\ generate_answered(it_store)
          /\ it_store.models[m].iterationCount < MAX_ITERATIONS
          /\ has_latest_image_key(it_store, m)
    /\ add_iteration_raises(it_store, m) = ""
    /\ it_index' = it_store.models[m].iterationCount
    /\ it_store' = add_iteration_apply(it_store, m)
    /\ it_model' = m
    /\ it_pc' = "handler"
    /\ it_requests' = it_requests + 1
    /\ UNCHANGED nonIterVars

\* The unit ends: the handler succeeded and the image was uploaded
\* (complete_iteration), the handler returned the error shape
\* (fail_iteration), or the upload raised (no further call).
finish_unit ==
    /\ it_pc = "handler"
    /\ \E outcome \in {"completed", "error", "abandoned"} :
         it_store' =
            IF outcome = "completed"
            THEN complete_iteration_apply(it_store, it_model, it_index,
                     ImageKeyOf(it_model, it_index), DurationOf(it_model))
            ELSE IF outcome = "error"
            THEN fail_iteration_apply(it_store, it_model, it_index, ErrorOf(it_model))
            ELSE it_store
    /\ it_pc' = "idle"
    /\ UNCHANGED <<it_model, it_index, it_requests>>
    /\ UNCHANGED nonIterVars

\* ------------------------------------------------ the context window
\* bounds: concurrent add_entry callers, and calls in a run
NumAppenders == 2
MaxAppends == 5

WINDOW_SIZE == 3
max_retries == 3

Appenders == 1..NumAppenders

\* create_context_entry for an iteration of the model.
create_context_entry(n) == [iteration |-> n, image_key |-> <<"image", n>>]
NoEntry == [iteration |-> -1, image_key |-> <<>>]

\* No context object under the key; no ETag read.
NoContext == [exists |-> FALSE, window |-> <<>>]
NoETag == [read |-> FALSE, window |-> <<>>]

\* The last n elements of a list: entries[-n:].
LastN(entries, n) ==
    IF Len(entries) <= n THEN entries
    ELSE SubSeq(entries, Len(entries) - n + 1, Len(entries))

\* A window that is never trimmed.
append_entry_mut(entries, entry) == Append(entries, entry)

\* entries.append(entry), then the trim to WINDOW_SIZE.
append_entry(entries, entry) == LastN(Append(entries, entry), WINDOW_SIZE)

InitCtxIdle ==
    /\ ctx_s3 = NoContext
    /\ ctx_pc = [p \in Appenders |-> "idle"]
    /\ ctx_entry = [p \in Appenders |-> NoEntry]
    /\ ctx_entries = [p \in Appenders |-> <<>>]
    /\ ctx_etag = [p \in Appenders |-> NoETag]
    /\ ctx_attempt = [p \in Appenders |-> 0]
    /\ ctx_calls = 0
    /\ ctx_appended = <<>>
    /\ ctx_forced = FALSE
    /\ ctx_read_failed = FALSE

\* A caller enters add_entry with the entry of the next iteration.
add_entry_begin(p) ==
    /\ ctx_pc[p] = "idle" /\ ctx_calls < MaxAppends
    /\ ctx_calls' = ctx_calls + 1
    /\ ctx_entry' = [ctx_entry EXCEPT ![p] = create_context_entry(ctx_calls)]
    /\ ctx_attempt' = [ctx_attempt EXCEPT ![p] = 0]
    /\ ctx_pc' = [ctx_pc EXCEPT ![p] = "get"]
    /\ UNCHANGED <<ctx_s3, ctx_entries, ctx_etag, ctx_appended, ctx_forced,
                   ctx_read_failed>>
    /\ UNCHANGED nonCtxVars

\* What the read of the context object can do: succeed, fail in get_object,
\* or fail after the ETag was taken (reading or parsing the body).
ReadOutcomes == {"ok", "get_fails", "body_fails"}

\* One pass of the loop up to _save_context_conditional: get_object gives the
\* window and its ETag, NoSuchKey gives an empty list and no ETag, and any
\* other failure of the read gives an empty list too, with the ETag when the
\* failure came after it was taken; then the append and the trim. The ETag of
\* an object stands for its content.
add_entry_get(p) ==
    /\ ctx_pc[p] = "get"
    /\ \E outcome \in ReadOutcomes :
         LET got == outcome # "get_fails" /\ ctx_s3.exists
             entries == IF got /\ outcome = "ok" THEN ctx_s3.window ELSE <<>>
         IN /\ ctx_etag' = [ctx_etag EXCEPT ![p] =
                  IF got THEN [read |-> TRUE, window |-> ctx_s3.window] ELSE NoETag]
            /\ ctx_entries' = [ctx_entries EXCEPT ![p] = append_entry(entries, ctx_entry[p])]
            /\ ctx_read_failed' = (ctx_read_failed \/ (ctx_s3.exists /\ outcome # "ok"))
    /\ ctx_pc' = [ctx_pc EXCEPT ![p] = "put"]
    /\ UNCHANGED <<ctx_s3, ctx_entry, ctx_attempt, ctx_calls, ctx_appended, ctx_forced>>
    /\ UNCHANGED nonCtxVars

\* The call returns: its locals end with it.
add_entry_return(p) ==
    /\ ctx_pc' = [ctx_pc EXCEPT ![p] = "idle"]
    /\ ctx_entries' = [ctx_entries EXCEPT ![p] = <<>>]
    /\ ctx_etag' = [ctx_etag EXCEPT ![p] = NoETag]
    /\ ctx_attempt' = [ctx_attempt EXCEPT ![p] = 0]
    /\ ctx_entry' = [ctx_entry EXCEPT ![p] = NoEntry]

\* A loop that makes one pass more than max_retries.
save_context_conditional_mut(p) ==
    /\ ctx_pc[p] = "put"
    /\ IF ctx_etag[p].read /\ (~ctx_s3.exists \/ ctx_s3.window # ctx_etag[p].window)
       THEN /\ IF ctx_attempt[p] < max_retries
               THEN /\ ctx_attempt' = [ctx_attempt EXCEPT ![p] = @ + 1]
                    /\ ctx_pc' = [ctx_pc EXCEPT ![p] = "get"]
               ELSE /\ ctx_pc' = [ctx_pc EXCEPT ![p] = "force"]
                    /\ UNCHANGED ctx_attempt
            /\ UNCHANGED <<ctx_s3, ctx_entry, ctx_entries, ctx_etag, ctx_appended>>
       ELSE /\ ctx_s3' = [exists |-> TRUE, window |-> ctx_entries[p]]
            /\ ctx_appended' = Append(ctx_appended, ctx_entry[p])
            /\ add_entry_return(p)
    /\ UNCHANGED <<ctx_calls, ctx_forced, ctx_read_failed>>
    /\ UNCHANGED nonCtxVars

\* _save_context_conditional: put_object, with IfMatch when an ETag was read.
\* A failed precondition sends the loop round again, or past its end.
save_context_conditional(p) ==
    /\ ctx_pc[p] = "put"
    /\ IF ctx_etag[p].read /\ (~ctx_s3.exists \/ ctx_s3.window # ctx_etag[p].window)
       THEN /\ IF ctx_attempt[p] + 1 < max_retries
               THEN /\ ctx_attempt' = [ctx_attempt EXCEPT ![p] = @ + 1]
                    /\ ctx_pc' = [ctx_pc EXCEPT ![p] = "get"]
               ELSE /\ ctx_pc' = [ctx_pc EXCEPT ![p] = "force"]
                    /\ UNCHANGED ctx_attempt
            /\ UNCHANGED <<ctx_s3, ctx_entry, ctx_entries, ctx_etag, ctx_appended>>
       ELSE /\ ctx_s3' = [exists |-> TRUE, window |-> ctx_entries[p]]
            /\ ctx_appended' = Append(ctx_appended, ctx_entry[p])
            /\ add_entry_return(p)
    /\ UNCHANGED <<ctx_calls, ctx_forced, ctx_read_failed>>
    /\ UNCHANGED nonCtxVars

\* put_object fails with another error: add_entry raises.
save_context_raises(p) ==
    /\ ctx_pc[p] \in {"put", "force"}
    /\ add_entry_return(p)
    /\ UNCHANGED <<ctx_s3, ctx_calls, ctx_appended, ctx_forced, ctx_read_failed>>
    /\ UNCHANGED nonCtxVars

\* "Last attempt without condition": _save_context of the last pass's list.
save_context(p) ==
    /\ ctx_pc[p] = "force"
    /\ ctx_s3' = [exists |-> TRUE, window |-> ctx_entries[p]]
    /\ ctx_appended' = Append(ctx_appended, ctx_entry[p])
    /\ add_entry_return(p)
    /\ ctx_forced' = TRUE
    /\ UNCHANGED <<ctx_calls, ctx_read_failed>>
    /\ UNCHANGED nonCtxVars

\* ------------------------------------------- SessionManager, any arguments
\* bounds: concurrent callers of the SessionManager, and calls in a run
NumCallers == 2
MaxMgrCalls == 4

Callers == 1..NumCallers
MgrSessionIds == {"s1", "s2"}
\* model names callers pass: two of the session's columns and a name that is
\* not a key of 'models'
MgrModels == {"flux", "recraft", "dalle"}
\* the enabled_models lists /generate passes
MgrEnabledLists == {{"flux"}, {"flux", "recraft"}}
\* iteration indices callers pass: the first one, and the first one free in a
\* session two iterations short of the limit
MgrIndices == {0, MAX_ITERATIONS - 2}

NoCall == [op |-> "none", session_id |-> "", model |-> "", index |-> -1]
\* no add_iteration has returned to the caller
NoIndex == [session_id |-> "", model |-> "", index |-> -1]

\* The record of a session after n /iterate units on flux that completed one
\* after another.
RECURSIVE SessionAfter(_)
SessionAfter(n) ==
    IF n = 0 THEN NewSession({"flux", "recraft"})
    ELSE complete_iteration_apply(
             add_iteration_apply(SessionAfter(n - 1), "flux"),
             "flux", n - 1, ImageKeyOf("flux", n - 1), DurationOf("flux"))

InitMgrIdle ==
    /\ mg_store = [s \in MgrSessionIds |-> None]
    /\ mg_pc = [c \in Callers |-> "idle"]
    /\ mg_call = [c \in Callers |-> NoCall]
    /\ mg_session = [c \in Callers |-> None]
    /\ mg_version = [c \in Callers |-> 0]
    /\ mg_attempt = [c \in Callers |-> 0]
    /\ mg_result = [c \in Callers |-> "none"]
    /\ mg_writes = [c \in Callers |-> 0]
    /\ mg_calls = 0
    /\ mg_index = [c \in Callers |-> NoIndex]
    /\ mg_forced = [c \in Callers |-> FALSE]

\* A bucket holding one session: just created, or two iterations short of the
\* limit on flux.
InitMgr ==
    /\ \E n \in {0, MAX_ITERATIONS - 2} :
          mg_store = [s \in MgrSessionIds |-> IF s = "s1" THEN SessionAfter(n) ELSE None]
    /\ mg_pc = [c \in Callers |-> "idle"]
    /\ mg_call = [c \in Callers |-> NoCall]
    /\ mg_session = [c \in Callers |-> None]
    /\ mg_version = [c \in Callers |-> 0]
    /\ mg_attempt = [c \in Callers |-> 0]
    /\ mg_result = [c \in Callers |-> "none"]
    /\ mg_writes = [c \in Callers |-> 0]
    /\ mg_calls = 0
    /\ mg_index = [c \in Callers |-> NoIndex]
    /\ mg_forced = [c \in Callers |-> FALSE]

\* create_session: a uuid4 no session has yet, the new record, _save_status.
mgr_create_session(c) ==
    /\ mg_pc[c] = "idle" /\ mg_calls < MaxMgrCalls
    /\ \E sid \in {s \in MgrSessionIds : mg_store[s] = None},
          enabled \in MgrEnabledLists :
          mg_store' = [mg_store EXCEPT ![sid] = NewSession(enabled)]
    /\ mg_result' = [mg_result EXCEPT ![c] = "returned"]
    /\ mg_writes' = [mg_writes EXCEPT ![c] = 1]
    /\ mg_calls' = mg_calls + 1
    /\ mg_index' = [mg_index EXCEPT ![c] = NoIndex]
    /\ mg_forced' = [mg_forced EXCEPT ![c] = FALSE]
    /\ UNCHANGED <<mg_pc, mg_call, mg_session, mg_version, mg_attempt>>
    /\ UNCHANGED nonMgrVars

\* A caller enters add_iteration, complete_iteration or fail_iteration.
mgr_begin(c) ==
    /\ mg_pc[c] = "idle" /\ mg_calls < MaxMgrCalls
    /\ \E o \in {"add_iteration", "complete_iteration", "fail_iteration"},
          sid \in MgrSessionIds, m \in MgrModels, idx \in MgrIndices :
          /\ o = "add_iteration" => idx = 0
          /\ mg_call' = [mg_call EXCEPT ![c] =
                [op |-> o, session_id |-> sid, model |-> m, index |-> idx]]
    /\ mg_pc' = [mg_pc EXCEPT ![c] = "read"]
    /\ mg_attempt' = [mg_attempt EXCEPT ![c] = 0]
    /\ mg_result' = [mg_result EXCEPT ![c] = "none"]
    /\ mg_writes' = [mg_writes EXCEPT ![c] = 0]
    /\ mg_calls' = mg_calls + 1
    /\ mg_index' = [mg_index EXCEPT ![c] = NoIndex]
    /\ mg_forced' = [mg_forced EXCEPT ![c] = FALSE]
    /\ UNCHANGED <<mg_store, mg_session, mg_version>>
    /\ UNCHANGED nonMgrVars

\* What the call raises on the record it read ("" when it goes on).
mgr_raises(call, sess) ==
    IF call.op = "add_iteration" THEN add_iteration_raises(sess, call.model)
    ELSE update_iteration_raises(sess, call.model, call.index)

\* A complete_iteration that stores the image key without the duration.
mgr_apply_mut(call, sess) ==
    IF call.op = "add_iteration" THEN add_iteration_apply(sess, call.model)
    ELSE IF call.op = "complete_iteration"
    THEN complete_iteration_apply(sess, call.model, call.index,
             ImageKeyOf(call.model, call.index), NoValue)
    ELSE fail_iteration_apply(sess, call.model, call.index, ErrorOf(call.model))

\* The record the call builds from the one it read.
mgr_apply(call, sess) ==
    IF call.op = "add_iteration" THEN add_iteration_apply(sess, call.model)
    ELSE IF call.op = "complete_iteration"
    THEN complete_iteration_apply(sess, call.model, call.index,
             ImageKeyOf(call.model, call.index), DurationOf(call.model))
    ELSE fail_iteration_apply(sess, call.model, call.index, ErrorOf(call.model))

\* An update path that creates or rewrites the record before it raises.
mgr_raise_mut(c, error) ==
    /\ mg_pc' = [mg_pc EXCEPT ![c] = "idle"]
    /\ mg_result' = [mg_result EXCEPT ![c] = error]
    /\ mg_session' = [mg_session EXCEPT ![c] = None]
    /\ mg_version' = [mg_version EXCEPT ![c] = 0]
    /\ mg_attempt' = [mg_attempt EXCEPT ![c] = 0]
    /\ mg_call' = [mg_call EXCEPT ![c] = NoCall]
    /\ mg_store' = [mg_store EXCEPT ![mg_call[c].session_id] =
            IF @ = None THEN NewSession({"flux"}) ELSE [@ EXCEPT !.version = @ + 1]]
    /\ mg_writes' = [mg_writes EXCEPT ![c] = @ + 1]
    /\ UNCHANGED <<mg_index, mg_forced>>

\* The call raises: nothing is written, its locals end with it.
mgr_raise(c, error) ==
    /\ mg_pc' = [mg_pc EXCEPT ![c] = "idle"]
    /\ mg_result' = [mg_result EXCEPT ![c] = error]
    /\ mg_session' = [mg_session EXCEPT ![c] = None]
    /\ mg_version' = [mg_version EXCEPT ![c] = 0]
    /\ mg_attempt' = [mg_attempt EXCEPT ![c] = 0]
    /\ mg_call' = [mg_call EXCEPT ![c] = NoCall]
    /\ UNCHANGED <<mg_store, mg_writes, mg_index, mg_forced>>

\* One pass of the call's loop up to _save_status_with_version: get_session,
\* the checks, the change on the local copy.
mgr_read(c) ==
    /\ mg_pc[c] = "read"
    /\ LET call == mg_call[c]
           sess == mg_store[call.session_id]
           raises == mgr_raises(call, sess)
       IN IF raises # ""
          THEN mgr_raise(c, raises)
          ELSE /\ mg_session' = [mg_session EXCEPT ![c] = mgr_apply(call, sess)]
               /\ mg_version' = [mg_version EXCEPT ![c] = sess.version]
               /\ mg_pc' = [mg_pc EXCEPT ![c] = "check"]
               /\ UNCHANGED <<mg_store, mg_call, mg_attempt, mg_result, mg_writes,
                              mg_index, mg_forced>>
    /\ UNCHANGED mg_calls
    /\ UNCHANGED nonMgrVars

\* A loop that makes one pass more than MAX_RETRIES.
mgr_check_mut(c) ==
    /\ mg_pc[c] = "check"
    /\ IF version_conflict(mg_store[mg_call[c].session_id], mg_version[c])
       THEN IF mg_attempt[c] < MAX_RETRIES
            THEN /\ mg_attempt' = [mg_attempt EXCEPT ![c] = @ + 1]
                 /\ mg_pc' = [mg_pc EXCEPT ![c] = "read"]
            ELSE /\ mg_pc' = [mg_pc EXCEPT ![c] = "force"]
                 /\ UNCHANGED mg_attempt
       ELSE /\ mg_pc' = [mg_pc EXCEPT ![c] = "put"]
            /\ UNCHANGED mg_attempt
    /\ UNCHANGED <<mg_store, mg_call, mg_session, mg_version, mg_result, mg_writes,
                   mg_calls, mg_index, mg_forced>>
    /\ UNCHANGED nonMgrVars

\* _save_status_with_version, first half: get_session and the version test.
mgr_check(c) ==
    /\ mg_pc[c] = "check"
    /\ IF version_conflict(mg_store[mg_call[c].session_id], mg_version[c])
       THEN IF mg_attempt[c] + 1 < MAX_RETRIES
            THEN /\ mg_attempt' = [mg_attempt EXCEPT ![c] = @ + 1]
                 /\ mg_pc' = [mg_pc EXCEPT ![c] = "read"]
            ELSE /\ mg_pc' = [mg_pc EXCEPT ![c] = "force"]
                 /\ UNCHANGED mg_attempt
       ELSE /\ mg_pc' = [mg_pc EXCEPT ![c] = "put"]
            /\ UNCHANGED mg_attempt
    /\ UNCHANGED <<mg_store, mg_call, mg_session, mg_version, mg_result, mg_writes,
                   mg_calls, mg_index, mg_forced>>
    /\ UNCHANGED nonMgrVars

\* _save_status, from _save_status_with_version or as the forced save after
\* the last pass; the call returns.
mgr_put(c) ==
    /\ mg_pc[c] \in {"put", "force"}
    /\ mg_store' = [mg_store EXCEPT ![mg_call[c].session_id] = mg_session[c]]
    /\ mg_writes' = [mg_writes EXCEPT ![c] = @ + 1]
    /\ mg_result' = [mg_result EXCEPT ![c] = "returned"]
    /\ mg_pc' = [mg_pc EXCEPT ![c] = "idle"]
    /\ mg_session' = [mg_session EXCEPT ![c] = None]
    /\ mg_version' = [mg_version EXCEPT ![c] = 0]
    /\ mg_attempt' = [mg_attempt EXCEPT ![c] = 0]
    /\ mg_call' = [mg_call EXCEPT ![c] = NoCall]
    /\ mg_index' = [mg_index EXCEPT ![c] =
            IF mg_call[c].op = "add_iteration"
            THEN [session_id |-> mg_call[c].session_id, model |-> mg_call[c].model,
                  index |-> mg_session[c].models[mg_call[c].model].iterationCount - 1]
            ELSE NoIndex]
    /\ mg_forced' = [mg_forced EXCEPT ![c] = (mg_pc[c] = "force")]
    /\ UNCHANGED mg_calls
    /\ UNCHANGED nonMgrVars

\* ------------------------------------------------ a unit's error message
\* bound: number of parts of an exception's message
MaxParts == 3

\* The parts a message is made of: plain text, and the four shapes
\* sanitize_error_message looks for (a Bearer token, a key=value pair of a
\* credential keyword, an sk- key, a run of 32 or more alphanumerics).
PlainParts == {"text"}
CredentialParts == {"Bearer <token>", "api_key=<value>", "sk-<key>", "<32 alphanumerics>"}
Parts == PlainParts \cup CredentialParts

RawMessages == UNION {[1..n -> Parts] : n \in 1..MaxParts}

\* One re.sub of sanitize_error_message: every match of the shape is replaced.
re_sub(shape, replacement, message) ==
    [i \in 1..Len(message) |-> IF message[i] = shape THEN replacement ELSE message[i]]

\* sanitize_error_message: the four substitutions, in the order of the code.
sanitize_error_message(error) ==
    re_sub("<32 alphanumerics>", "[REDACTED]",
      re_sub("sk-<key>", "[REDACTED_KEY]",
        re_sub("api_key=<value>", "api_key=[REDACTED]",
          re_sub("Bearer <token>", "Bearer [REDACTED]", error))))

\* "Image download timeout after 30 seconds", "Unknown error": fixed texts.
FixedMessage == <<"text">>
NoMessage == <<>>

\* JobManager.mark_model_error: records the error text on the unit.
mark_model_error(sess, model, error) == fail_iteration_apply(sess, model, 0, error)

InitErrIdle ==
    /\ er_pc = "start"
    /\ er_raw = NoMessage
    /\ er_error = NoMessage
    /\ er_response = NoMessage
    /\ er_store = add_iteration_apply(NewSession({"flux"}), "flux")

\* A handler of models/handlers.py fails: its except clause returns the error
\* shape with the sanitized message of the exception, or (requests.Timeout in
\* handle_openai and handle_stability) a fixed text; the caller passes
\* result.get('error', 'Unknown error') to fail_iteration.
handler_returns_error ==
    /\ er_pc = "start"
    /\ \E kind \in {"Exception", "Timeout"}, raw \in RawMessages :
         /\ er_raw' = raw
         /\ er_error' = IF kind = "Timeout" THEN FixedMessage
                        ELSE sanitize_error_message(raw)
    /\ er_response' = er_error'
    /\ er_pc' = "fail"
    /\ UNCHANGED er_store
    /\ UNCHANGED nonErrVars

\* session_manager.fail_iteration(session_id, model_name, iteration_index,
\* result.get('error', 'Unknown error')).
handler_error_stored ==
    /\ er_pc = "fail"
    /\ er_store' = fail_iteration_apply(er_store, "flux", 0, er_error)
    /\ er_pc' = "done"
    /\ UNCHANGED <<er_raw, er_error, er_response>>
    /\ UNCHANGED nonErrVars

\* generate_for_model's / handle_iterate's "except Exception": upload_image or
\* a SessionManager call raised; str(e) goes into the response, nothing is
\* stored.
worker_raises ==
    /\ er_pc = "start"
    /\ \E raw \in RawMessages :
         /\ er_raw' = raw
         /\ er_response' = raw
    /\ er_pc' = "done"
    /\ UNCHANGED <<er_error, er_store>>
    /\ UNCHANGED nonErrVars

\* JobExecutor._execute_model's "except Exception": error_msg is
\* "Model execution failed: " followed by str(e).
execute_model_raises ==
    /\ er_pc = "start"
    /\ \E raw \in RawMessages :
         /\ er_raw' = raw
         /\ er_error' = <<"text">> \o raw
    /\ er_response' = er_error'
    /\ er_pc' = "mark"
    /\ UNCHANGED er_store
    /\ UNCHANGED nonErrVars

\* self.job_manager.mark_model_error(job_id, model_name, error_msg).
execute_model_marks_error ==
    /\ er_pc = "mark"
    /\ er_store' = mark_model_error(er_store, "flux", er_error)
    /\ er_pc' = "done"
    /\ UNCHANGED <<er_raw, er_error, er_response>>
    /\ UNCHANGED nonErrVars

\* ------------------------------------------------ the thread pools
\* bound: number of units handed to a fan-out
MaxUnits == 11

\* max_workers: the cap of execute_job, and the pool size of handle_generate
executor_max_workers == 10
generate_max_workers == 4

FanOuts == {"execute_job", "handle_generate"}
Units == 1..MaxUnits

Min(a, b) == IF a <= b THEN a ELSE b

\* The lists the two fan-outs get: model_registry.get_all_models() is any
\* list of configured models, get_enabled_models() a non-empty part of the
\* four models of config.MODELS.
UnitCounts(kind) ==
    IF kind = "execute_job" THEN 1..MaxUnits ELSE 1..Len(MODEL_ORDER)

\* A pool with one worker per unit, without the cap.
max_workers_mut(kind, n) == n

\* The max_workers argument of the ThreadPoolExecutor.
max_workers(kind, n) ==
    IF kind = "execute_job" THEN Min(n, executor_max_workers)
    ELSE generate_max_workers

Running == {u \in Units : pl_state[u] = "running"}
Queued == {u \in Units : pl_state[u] = "queued"}

InitPoolIdle ==
    /\ pl_pc = "start"
    /\ pl_kind = "none"
    /\ pl_n = 0
    /\ pl_threads = 0
    /\ pl_state = [u \in Units |-> "unsubmitted"]
    /\ pl_started = [u \in Units |-> 0]

\* "with ThreadPoolExecutor(max_workers=...) as executor": the fan-out opens
\* its pool for the list of units it was given.
pool_open ==
    /\ pl_pc = "start"
    /\ \E kind \in FanOuts :
         \E n \in UnitCounts(kind) :
            /\ pl_kind' = kind
            /\ pl_n' = n
    /\ pl_pc' = "submitting"
    /\ UNCHANGED <<pl_threads, pl_state, pl_started>>
    /\ UNCHANGED nonPoolVars

\* executor.submit for the next unit of the list: the task is queued, and the
\* pool starts a worker thread when none is idle and it has fewer than
\* max_workers.
pool_submit ==
    /\ pl_pc = "submitting"
    /\ LET u == Cardinality({v \in Units : pl_state[v] # "unsubmitted"}) + 1
           idle == pl_threads - Cardinality(Running)
       IN /\ pl_state' = [pl_state EXCEPT ![u] = "queued"]
          /\ pl_threads' = IF idle = 0 /\ pl_threads < max_workers(pl_kind, pl_n)
                           THEN pl_threads + 1 ELSE pl_threads
          /\ pl_pc' = IF u = pl_n THEN "waiting" ELSE "submitting"
    /\ UNCHANGED <<pl_kind, pl_n, pl_started>>
    /\ UNCHANGED nonPoolVars

\* An idle worker thread takes the oldest queued task and runs it.
pool_worker_takes ==
    /\ pl_threads - Cardinality(Running) > 0
    /\ Queued # {}
    /\ LET u == CHOOSE v \in Queued : \A w \in Queued : v <= w
       IN /\ pl_state' = [pl_state EXCEPT ![u] = "running"]
          /\ pl_started' = [pl_started EXCEPT ![u] = @ + 1]
    /\ UNCHANGED <<pl_pc, pl_kind, pl_n, pl_threads>>
    /\ UNCHANGED nonPoolVars

\* A unit's task (_execute_model, generate_for_model) returns.
pool_task_returns ==
    /\ \E u \in Running : pl_state' = [pl_state EXCEPT ![u] = "done"]
    /\ UNCHANGED <<pl_pc, pl_kind, pl_n, pl_threads, pl_started>>
    /\ UNCHANGED nonPoolVars

\* The as_completed loop has seen every future: the with block ends.
pool_close ==
    /\ pl_pc = "waiting"
    /\ \A u \in 1..pl_n : pl_state[u] = "done"
    /\ pl_pc' = "returned"
    /\ UNCHANGED <<pl_kind, pl_n, pl_threads, pl_state, pl_started>>
    /\ UNCHANGED nonPoolVars

\* ------------------------------------------------ retry_with_backoff
\* bound: the largest max_retries a decorator is given
MaxRetriesArg == 3

RETRYABLE_S3_ERRORS == {"503", "500", "RequestTimeout", "RequestTimeoutException"}
PERMANENT_S3_ERRORS == {"403", "404", "400", "InvalidBucketName", "NoSuchBucket"}

\* The exceptions func raises: network errors, a ValueError, and ClientErrors
\* with an error code and an HTTP status.
NetworkErrors ==
    {[type |-> t, code |-> "", http_status |-> ""] :
        t \in {"ConnectionError", "TimeoutError", "BotoCoreError"}}
ClientErrors ==
    {[type |-> "ClientError", code |-> c, http_status |-> h] :
        c \in {"500", "RequestTimeout", "AccessDenied", "NoSuchBucket"},
        h \in {"500", "403", "429"}}
FuncErrors ==
    NetworkErrors \cup ClientErrors
        \cup {[type |-> "ValueError", code |-> "", http_status |-> ""]}

\* What one invocation of func does: returns a value or raises.
FuncReturns == {[type |-> "return", value |-> v] : v \in {"a", "b"}}
FuncOutcomes == FuncReturns \cup FuncErrors

NoOutcome == [type |-> "none"]

is_retryable_error(error) ==
    IF error.type \in {"ConnectionError", "TimeoutError", "BotoCoreError"} THEN TRUE
    ELSE IF error.type = "ClientError"
    THEN IF error.code \in PERMANENT_S3_ERRORS \/ error.http_status \in PERMANENT_S3_ERRORS
         THEN FALSE
         ELSE error.code \in RETRYABLE_S3_ERRORS \/ error.http_status \in RETRYABLE_S3_ERRORS
    ELSE FALSE

InitRetryIdle ==
    /\ rt_pc = "start"
    /\ rt_max_retries = 0
    /\ rt_attempt = 0
    /\ rt_outcomes = <<>>
    /\ rt_result = NoOutcome

\* The wrapper of a function decorated with retry_with_backoff(max_retries=n)
\* is called.
retry_wrapper_called ==
    /\ rt_pc = "start"
    /\ \E n \in 0..MaxRetriesArg : rt_max_retries' = n
    /\ rt_pc' = "calling"
    /\ UNCHANGED <<rt_attempt, rt_outcomes, rt_result>>
    /\ UNCHANGED nonRetryVars

\* A wrapper that retries once more than max_retries.
retry_invoke_mut ==
    /\ rt_pc = "calling"
    /\ \E outcome \in FuncOutcomes :
         /\ rt_outcomes' = Append(rt_outcomes, outcome)
         /\ IF outcome.type = "return"
            THEN /\ rt_pc' = "returned"
                 /\ rt_result' = outcome
            ELSE IF ~is_retryable_error(outcome) \/ rt_attempt >= rt_max_retries + 1
            THEN /\ rt_pc' = "raised"
                 /\ rt_result' = outcome
            ELSE /\ rt_pc' = "sleeping"
                 /\ UNCHANGED rt_result
    /\ UNCHANGED <<rt_max_retries, rt_attempt>>
    /\ UNCHANGED nonRetryVars

\* One pass of the loop: func is invoked; its value is returned, or its
\* exception is re-raised when it is not retryable or this was the last
\* attempt, or the wrapper goes to sleep.
retry_invoke ==
    /\ rt_pc = "calling"
    /\ \E outcome \in FuncOutcomes :
         /\ rt_outcomes' = Append(rt_outcomes, outcome)
         /\ IF outcome.type = "return"
            THEN /\ rt_pc' = "returned"
                 /\ rt_result' = outcome
            ELSE IF ~is_retryable_error(outcome) \/ rt_attempt >= rt_max_retries
            THEN /\ rt_pc' = "raised"
                 /\ rt_result' = outcome
            ELSE /\ rt_pc' = "sleeping"
                 /\ UNCHANGED rt_result
    /\ UNCHANGED <<rt_max_retries, rt_attempt>>
    /\ UNCHANGED nonRetryVars

\* time.sleep(delay) returns and the loop goes to its next pass.
retry_sleep_returns ==
    /\ rt_pc = "sleeping"
    /\ rt_attempt' = rt_attempt + 1
    /\ rt_pc' = "calling"
    /\ UNCHANGED <<rt_max_retries, rt_outcomes, rt_result>>
    /\ UNCHANGED nonRetryVars

InitSession ==
    \E n \in 1..MaxEnabled :
        /\ n <= Len(MODEL_ORDER)
        /\ InitSessionWith({MODEL_ORDER[i] : i \in 1..n})

Init ==
    /\ InitSession /\ InitStatusIdle /\ InitRateIdle /\ InitIterIdle /\ InitCtxIdle
    /\ InitMgrIdle /\ InitErrIdle /\ InitPoolIdle /\ InitRetryIdle

Next ==
    \/ create_session
    \/ \E w \in ModelNames : generate_for_model(w)
    \/ handle_generate_return

Spec == Init /\ [][Next]_vars

\* _compute_session_status on every record it can be called on.
NextStatus == compute_session_status_call

InitStatusSpec ==
    /\ InitSessionWith(ModelNames) /\ InitStatus /\ InitRateIdle /\ InitIterIdle
    /\ InitCtxIdle /\ InitMgrIdle /\ InitErrIdle /\ InitPoolIdle /\ InitRetryIdle

SpecStatus == InitStatusSpec /\ [][NextStatus]_vars

\* Limiter processes (Lambda containers, each with its own module-level
\* cache) serving check_rate_limit calls against one bucket.
NextRate ==
    \/ \E c \in Limiters, ip \in Identities :
          \/ check_rate_limit_whitelisted(c, ip)
          \/ check_rate_limit_load_fails(c, ip)
          \/ check_rate_limit_check(c, ip)
    \/ \E c \in Limiters : save_rate_data(c) \/ save_rate_data_fails(c)
    \/ advance_clock

InitRateSpec ==
    /\ InitSessionWith(ModelNames) /\ InitStatusIdle /\ InitRateIdle /\ InitIterIdle
    /\ InitCtxIdle /\ InitMgrIdle /\ InitErrIdle /\ InitPoolIdle /\ InitRetryIdle

SpecRate == InitRateSpec /\ [][NextRate]_vars

\* check_rate_limit calls made one after another (a call starts when no other
\* is inside check_rate_limit), by any of the limiter processes, with a store
\* that answers every get and put.
NextRateSeq ==
    \/ /\ \A d \in Limiters : rl_pc[d] = "idle"
       /\ \E c \in Limiters, ip \in Identities :
             \/ check_rate_limit_whitelisted(c, ip)
             \/ check_rate_limit_check(c, ip)
    \/ \E c \in Limiters : save_rate_data(c)
    \/ advance_clock

SpecRateSeq == InitRateSpec /\ [][NextRateSeq]_vars

\* A session's life: /generate, then /iterate requests one after another.
NextIterate ==
    \/ iterate_create_session
    \/ \E m \in ModelNames : start_unit(m)
    \/ finish_unit

InitIterateSpec ==
    /\ InitSessionWith(ModelNames) /\ InitStatusIdle /\ InitRateIdle /\ InitIterIdle
    /\ InitCtxIdle /\ InitMgrIdle /\ InitErrIdle /\ InitPoolIdle /\ InitRetryIdle

SpecIterate == InitIterateSpec /\ [][NextIterate]_vars

\* Concurrent add_entry calls on one (session, model) key.
NextContext ==
    \E p \in Appenders :
        \/ add_entry_begin(p)
        \/ add_entry_get(p)
        \/ save_context_conditional(p)
        \/ save_context_raises(p)
        \/ save_context(p)

InitContextSpec ==
    /\ InitSessionWith(ModelNames) /\ InitStatusIdle /\ InitRateIdle /\ InitIterIdle
    /\ InitCtxIdle /\ InitMgrIdle /\ InitErrIdle /\ InitPoolIdle /\ InitRetryIdle

SpecContext == InitContextSpec /\ [][NextContext]_vars

\* add_entry calls made one after another.
add_entry_begin_sequential(p) ==
    /\ \A q \in Appenders : ctx_pc[q] = "idle"
    /\ add_entry_begin(p)

NextContextSeq ==
    \E p \in Appenders :
        \/ add_entry_begin_sequential(p)
        \/ add_entry_get(p)
        \/ save_context_conditional(p)
        \/ save_context_raises(p)

SpecContextSeq == InitContextSpec /\ [][NextContextSeq]_vars

\* SessionManager calls by concurrent callers.
NextManager ==
    \E c \in Callers :
        \/ mgr_create_session(c)
        \/ mgr_begin(c)
        \/ mgr_read(c)
        \/ mgr_check(c)
        \/ mgr_put(c)

InitManagerSpec ==
    /\ InitSessionWith(ModelNames) /\ InitStatusIdle /\ InitRateIdle /\ InitIterIdle
    /\ InitCtxIdle /\ InitMgr /\ InitErrIdle /\ InitPoolIdle /\ InitRetryIdle

SpecManager == InitManagerSpec /\ [][NextManager]_vars

\* SessionManager calls made one after another.
mgr_create_session_sequential(c) ==
    /\ \A d \in Callers : mg_pc[d] = "idle"
    /\ mgr_create_session(c)

mgr_begin_sequential(c) ==
    /\ \A d \in Callers : mg_pc[d] = "idle"
    /\ mgr_begin(c)

NextManagerSeq ==
    \E c \in Callers :
        \/ mgr_create_session_sequential(c)
        \/ mgr_begin_sequential(c)
        \/ mgr_read(c)
        \/ mgr_check(c)
        \/ mgr_put(c)

SpecManagerSeq == InitManagerSpec /\ [][NextManagerSeq]_vars

\* One unit fails: through a handler and fail_iteration, in the worker, or in
\* JobExecutor._execute_model.
NextErrors ==
    \/ handler_returns_error
    \/ handler_error_stored
    \/ worker_raises
    \/ execute_model_raises
    \/ execute_model_marks_error

InitErrorsSpec ==
    /\ InitSessionWith(ModelNames) /\ InitStatusIdle /\ InitRateIdle /\ InitIterIdle
    /\ InitCtxIdle /\ InitMgrIdle /\ InitErrIdle /\ InitPoolIdle /\ InitRetryIdle

SpecErrors == InitErrorsSpec /\ [][NextErrors]_vars

\* One fan-out: execute_job or handle_generate runs its units on its pool.
NextPool ==
    \/ pool_open
    \/ pool_submit
    \/ pool_worker_takes
    \/ pool_task_returns
    \/ pool_close

InitPoolSpec ==
    /\ InitSessionWith(ModelNames) /\ InitStatusIdle /\ InitRateIdle /\ InitIterIdle
    /\ InitCtxIdle /\ InitMgrIdle /\ InitErrIdle /\ InitPoolIdle /\ InitRetryIdle

SpecPool == InitPoolSpec /\ [][NextPool]_vars

\* One call of a wrapped function.
NextRetry ==
    \/ retry_wrapper_called
    \/ retry_invoke
    \/ retry_sleep_returns

InitRetrySpec ==
    /\ InitSessionWith(ModelNames) /\ InitStatusIdle /\ InitRateIdle /\ InitIterIdle
    /\ InitCtxIdle /\ InitMgrIdle /\ InitErrIdle /\ InitPoolIdle /\ InitRetryIdle

SpecRetry == InitRetrySpec /\ [][NextRetry]_vars

\* =================================================================== claims

\* The stored iteration a worker's add_iteration call created, None when the
\* stored record has no iteration of that index for the model.
StoredIteration(m) ==
    LET its == Stored.models[m].iterations
        k == FindIteration(its, iteration_index[m])
    IN IF k = 0 THEN None ELSE its[k]

NoRetryExhausted == \A m \in ModelNames : ~exhausted[m]

\* C1: when every call has returned and no call ran out of retries, the effect
\* of every SessionManager call that returned is in the stored record: the
\* iteration add_iteration appended, the completed status and image key of
\* complete_iteration, the error status and message of fail_iteration.
C1_EveryCallEffectStored ==
    (main_pc = "returned" /\ NoRetryExhausted) =>
        \A m \in enabled_models :
            /\ "add_iteration" \in call_done[m] => StoredIteration(m) # None
            /\ "complete_iteration" \in call_done[m] =>
                   /\ StoredIteration(m) # None
                   /\ StoredIteration(m).status = "completed"
                   /\ StoredIteration(m).imageKey = image_key[m]
            /\ "fail_iteration" \in call_done[m] =>
                   /\ StoredIteration(m) # None
                   /\ StoredIteration(m).status = "error"
                   /\ StoredIteration(m).error = ErrorOf(m)

\* C3: after the fan-out, with no retries exhausted, the stored session holds
\* every unit's own result: completed with its own image key where the adapter
\* succeeded and the image was uploaded, error with its own message where the
\* adapter returned the error shape.
C3_EveryUnitResultStored ==
    (main_pc = "returned" /\ NoRetryExhausted) =>
        \A m \in enabled_models :
            /\ (adapter[m] = "success" /\ image_key[m] # NoValue) =>
                   /\ StoredIteration(m) # None
                   /\ StoredIteration(m).status = "completed"
                   /\ StoredIteration(m).imageKey = ImageKeyOf(m, iteration_index[m])
            /\ adapter[m] = "error" =>
                   /\ StoredIteration(m) # None
                   /\ StoredIteration(m).status = "error"
                   /\ StoredIteration(m).error = ErrorOf(m)

\* A model with an iteration stored as in_progress.
InProgressInStore(m) ==
    /\ Stored # None
    /\ \E k \in 1..Len(Stored.models[m].iterations) :
           Stored.models[m].iterations[k].status = "in_progress"

\* C4: a unit recorded as in_progress does not stay so: once its worker has
\* returned (normally, or after an upload or a completion write that failed),
\* the stored record no longer shows it in_progress.
C4_NoUnitLeftInProgress ==
    \A m \in enabled_models : pc[m] = "returned" => ~InProgressInStore(m)

\* C5: when the fan-out returns, every dispatched unit is completed or error in
\* the stored session; none is pending or in_progress.
C5_AllTerminalAtReturn ==
    main_pc = "returned" =>
        \A m \in enabled_models :
            /\ Len(Stored.models[m].iterations) > 0
            /\ \A k \in 1..Len(Stored.models[m].iterations) :
                   Stored.models[m].iterations[k].status \in {"completed", "error"}

\* C6: units are isolated: when some units' adapters fail, every other unit
\* whose adapter succeeded and whose image was stored still ends completed.
C6_FailureLeavesSiblingsCompleted ==
    (/\ main_pc = "returned"
     /\ \E f \in enabled_models : adapter[f] = "error") =>
        \A m \in enabled_models :
            (adapter[m] = "success" /\ image_key[m] # NoValue) =>
                /\ Stored.models[m].status = "completed"
                /\ StoredIteration(m) # None
                /\ StoredIteration(m).status = "completed"

\* C7: a handler call that never returns does not keep the fan-out from
\* returning: until handle_generate has returned, some step (here the timeout
\* of the hanging unit) can always be taken.
C7_FanOutAlwaysReturns ==
    main_pc = "returned" \/ ENABLED Next

\* C8: the stored version equals the number of writes made to the record.
C8_VersionCountsWrites ==
    \A s \in SessionIds : s3_sessions[s] # None => s3_sessions[s].version = numWrites

\* C9: the version starts at 1 and every write stores a version strictly
\* greater than the one it replaces.
C9_VersionStrictlyIncreases ==
    [][\A s \in SessionIds :
          numWrites' # numWrites =>
              IF s3_sessions[s] = None
              THEN s3_sessions'[s] = None \/ s3_sessions'[s].version = 1
              ELSE s3_sessions'[s].version > s3_sessions[s].version]_vars

\* The requests admitted inside the hour before now, and those of one identity
\* inside the day before now.
AdmittedInHour == {k \in DOMAIN admitted : admitted[k].timestamp > now - HourSeconds}
AdmittedInDay(ip) ==
    {k \in DOMAIN admitted :
        admitted[k].ip = ip /\ admitted[k].timestamp > now - DaySeconds}

\* C2: within one window no more than global_limit calls are allowed, and no
\* more than ip_limit for one identity, whatever the interleaving of the
\* limiter processes.
C2_LimitsNeverExceeded ==
    /\ Cardinality(AdmittedInHour) <= global_limit
    /\ \A ip \in Identities : Cardinality(AdmittedInDay(ip)) <= ip_limit

\* The rows of the derivation table, on the statuses of the enabled units.
TableStatus(ms) ==
    LET en == {m \in ModelNames : ms[m].enabled}
        all(S) == \A m \in en : ms[m].status \in S
        some(S) == \E m \in en : ms[m].status \in S
    IN IF all({"pending"}) THEN {"pending"}
       ELSE IF some({"in_progress"}) THEN {"in_progress"}
       ELSE IF all({"completed", "error"}) /\ ~some({"error"}) THEN {"completed"}
       ELSE IF all({"completed", "error"}) /\ ~some({"completed"}) THEN {"failed"}
       ELSE IF all({"completed", "error"}) THEN {"partial"}
       ELSE {"pending", "in_progress", "completed", "partial", "failed"}

\* C10: _compute_session_status returns what the table gives: pending when all
\* enabled units are pending, in_progress when any is in_progress, and for
\* units all completed or error: completed without an error, failed without a
\* completed, partial with both.
C10_StatusMatchesTable ==
    status_result # "none" => status_result \in TableStatus(status_models)

C10_Witness ==
    /\ status_result = "partial"
    /\ \E a, b \in ModelNames :
          /\ status_models[a].enabled /\ status_models[a].status = "completed"
          /\ status_models[b].enabled /\ status_models[b].status = "error"
    /\ \A m \in ModelNames :
          status_models[m].enabled => status_models[m].status \in {"completed", "error"}

TerminalStatuses == {"completed", "partial", "failed"}

\* C11: a stored session whose overall status is completed, partial or failed
\* has no enabled unit that is pending or in_progress (such a session reports
\* in_progress).
C11_TerminalOnlyWhenUnitsDone ==
    \A s \in SessionIds :
        (s3_sessions[s] # None /\ s3_sessions[s].status \in TerminalStatuses) =>
            \A m \in ModelNames :
                s3_sessions[s].models[m].enabled =>
                    s3_sessions[s].models[m].status \notin {"pending", "in_progress"}

\* C12: in every stored record the overall status is the one recomputed from
\* the stored model statuses, and every model's status is the one recomputed
\* from its enabled flag and its iterations.
C12_StoredStatusesDerived ==
    it_store # None =>
        /\ it_store.status = compute_session_status(it_store)
        /\ \A m \in ModelNames :
               it_store.models[m].status = compute_model_status(it_store.models[m])

\* A record written by fail_iteration after several iterations: one model
\* with completed and failed iterations beside a model whose only one failed.
C12_Witness ==
    /\ it_store # None
    /\ it_store.status = "partial"
    /\ \E a, b \in ModelNames :
          /\ it_store.models[a].status = "partial"
          /\ it_store.models[b].status = "error"

StatusRank(st) ==
    IF st = "pending" THEN 0 ELSE IF st = "in_progress" THEN 1 ELSE 2

\* C13: the overall status of a stored session only moves forward along
\* pending, in_progress, then completed / partial / failed: no operation takes
\* a session that is completed, partial or failed back to pending or
\* in_progress, nor an in_progress one back to pending.
C13_StatusOnlyMovesForward ==
    [][(it_store # None /\ it_store' # None) =>
          StatusRank(it_store'.status) >= StatusRank(it_store.status)]_vars

\* The request of ip made at ts is in the stored rate-limit object.
Recorded(object, ip, ts) ==
    /\ object # None
    /\ \E k \in 1..Len(object.global_requests) : object.global_requests[k] = ts
    /\ \E k \in 1..Len(object.ip_requests[ip]) : object.ip_requests[ip][k] = ts

\* C14: the limiter fails closed: a call of a non-whitelisted caller that
\* returned allowed has its request in the store, written by that call; a call
\* whose read or write of the store failed is not allowed, and handle_generate
\* does not go on to create_session after it.
C14_AllowedOnlyAfterWrite ==
    /\ (last_call.result = "allowed" /\ last_call.ip \notin ip_whitelist) =>
           Recorded(rl_s3, last_call.ip, last_call.timestamp)
    /\ last_call.result = "raised" => last_call.handler = "500"
    /\ last_call.handler = "create_session" => last_call.result = "allowed"

\* A call whose put_object failed: its request is in the process's cached
\* dict, not in the store, and the handler answered 500.
C14_Witness ==
    /\ last_call.result = "raised" /\ last_call.handler = "500"
    /\ last_call.c \in Limiters
    /\ Recorded(cache_data[last_call.c], last_call.ip, last_call.timestamp)
    /\ ~Recorded(rl_s3, last_call.ip, last_call.timestamp)

\* C15: a call that returns rate limited writes nothing: the stored object,
\* and with it the recorded global count and every per-identity count, is the
\* same after the call as before.
C15_RejectionWritesNothing ==
    [][(last_call'.n # last_call.n /\ last_call'.result = "limited") =>
          (rl_s3' = rl_s3 /\ admitted' = admitted)]_vars

\* An identity rejected on its own quota while the global limit is not reached.
C15_Witness ==
    /\ last_call.result = "limited"
    /\ last_call.timestamp = now
    /\ Cardinality(AdmittedInDay(last_call.ip)) >= ip_limit
    /\ Cardinality(AdmittedInHour) < global_limit

\* C16: a call for a whitelisted identity returns allowed and neither reads
\* nor writes the store: the stored object and the process's cache of it are
\* unchanged.
C16_WhitelistBypassesStore ==
    [][(last_call'.n # last_call.n /\ last_call'.ip \in ip_whitelist) =>
          /\ last_call'.result = "allowed"
          /\ rl_s3' = rl_s3
          /\ cache_data' = cache_data
          /\ cache_timestamp' = cache_timestamp]_vars

\* A whitelisted caller allowed while the store holds global_limit requests
\* of the current hour.
C16_Witness ==
    /\ last_call.ip \in ip_whitelist /\ last_call.result = "allowed"
    /\ last_call.timestamp = now
    /\ rl_s3 # None
    /\ Len(cleanup_old_requests(rl_s3, now).global_requests) >= global_limit

\* The requests admitted inside the windows that end at time t.
AdmittedInHourAt(t) ==
    {k \in DOMAIN admitted :
        admitted[k].timestamp > t - HourSeconds /\ admitted[k].timestamp <= t}
AdmittedInDayAt(ip, t) ==
    {k \in DOMAIN admitted :
        /\ admitted[k].ip = ip
        /\ admitted[k].timestamp > t - DaySeconds /\ admitted[k].timestamp <= t}

\* C17: for calls made one after another within a window, exactly the first
\* ip_limit calls of an identity and the first global_limit calls overall are
\* allowed: never more are allowed, and a call is rejected only when one of
\* the two limits has been reached.
C17_SequentialCallsCounted ==
    /\ Cardinality(AdmittedInHourAt(now)) <= global_limit
    /\ \A ip \in Identities : Cardinality(AdmittedInDayAt(ip, now)) <= ip_limit
    /\ last_call.result = "limited" =>
           \/ Cardinality(AdmittedInHourAt(last_call.timestamp)) >= global_limit
           \/ Cardinality(AdmittedInDayAt(last_call.ip, last_call.timestamp)) >= ip_limit

\* The number of requests of identity b recorded in the store for the
\* current day.
StoredCount(object, b) ==
    IF object = None THEN 0
    ELSE Len(cleanup_old_requests(object, now).ip_requests[b])

\* C18: a call for one identity never changes the recorded request count of
\* another identity.
C18_OtherIdentitiesUntouched ==
    [][\A c \in Limiters :
          (rl_pc[c] = "save" /\ rl_pc'[c] = "idle") =>
              \A b \in Identities \ {rl_ip[c]} :
                  StoredCount(rl_s3', b) = StoredCount(rl_s3, b)]_vars

\* The stored window, empty when there is no context object.
StoredWindow == IF ctx_s3.exists THEN ctx_s3.window ELSE <<>>

\* C19: the stored context window never holds more than WINDOW_SIZE entries,
\* whatever the interleaving of add_entry calls and whichever write (the
\* conditional one or the unconditional fallback) stored it.
C19_WindowAtMostThree == Len(StoredWindow) <= WINDOW_SIZE

\* A full window after more than WINDOW_SIZE appends, one of them stored by
\* the unconditional fallback write, with every call returned.
C19_Witness ==
    /\ Len(StoredWindow) = WINDOW_SIZE
    /\ Len(ctx_appended) > WINDOW_SIZE
    /\ ctx_forced
    /\ \A p \in Appenders : ctx_pc[p] = "idle"

\* C20: after n add_entry calls made one after another, the stored window is
\* the last min(n, 3) appended entries in the order of their appends.
C20_WindowIsLastThreeAppended ==
    (\A p \in Appenders : ctx_pc[p] = "idle") =>
        StoredWindow = LastN(ctx_appended, WINDOW_SIZE)

\* C21: the entries of the stored context window are strictly increasing in
\* their iteration number, whatever the interleaving of the requests that
\* append to the key.
C21_WindowStrictlyIncreasing ==
    \A i, j \in 1..Len(StoredWindow) :
        i < j => StoredWindow[i].iteration < StoredWindow[j].iteration

\* An entry that add_entry returned for is missing from the stored window.
Lost == {k \in 1..Len(ctx_appended) :
            \A i \in 1..Len(StoredWindow) : StoredWindow[i] # ctx_appended[k]}

\* C22: when every add_entry call has returned, none ran out of retries and
\* every read succeeded, concurrent appends have merged: with fewer than
\* WINDOW_SIZE entries appended every one of them is in the stored window, and
\* with more at most the evicted ones are missing.
C22_ConcurrentAppendsMerge ==
    (/\ \A p \in Appenders : ctx_pc[p] = "idle"
     /\ ~ctx_forced /\ ~ctx_read_failed) =>
        /\ Len(ctx_appended) < WINDOW_SIZE => Lost = {}
        /\ Cardinality(Lost) <= Len(ctx_appended) - Len(LastN(ctx_appended, WINDOW_SIZE))

\* C27: the fan-out call returns with an outcome for every dispatched unit
\* whatever units failed (adapter error, failed upload, failed context write),
\* and when some units succeeded and others failed the stored session's
\* overall status is partial.
C27_MixedOutcomesStoredPartial ==
    main_pc = "returned" =>
        /\ \A m \in enabled_models : results[m].status \in {"completed", "error"}
        /\ (/\ \E m \in enabled_models : results[m].status = "completed"
            /\ \E m \in enabled_models : results[m].status = "error") =>
               Stored.status = "partial"

\* The keys of ip_requests in a stored rate-limit object (a key holds at least
\* one timestamp).
StoredKeys(object) ==
    {k \in DOMAIN object.ip_requests : object.ip_requests[k] # <<>>}

\* C30: nothing the rate limiter writes holds a caller's raw network identity:
\* no key of the stored per-identity state is an identity as the caller
\* presented it.
C30_NoRawIdentityStored ==
    rl_s3 # None => StoredKeys(rl_s3) \cap Identities = {}

\* C28: check_rate_limit comes before any session work of a /generate
\* request: a request that is rate limited, one whose limiter call failed and
\* one blocked by the content filter create no session record and dispatch no
\* unit; a request that created a session was allowed by the limiter.
C28_NoSessionWorkWithoutAdmission ==
    /\ last_call.result \in {"limited", "raised"} =>
           last_call.work.session = None /\ last_call.work.dispatched = {}
    /\ last_call.handler = "400" =>
           last_call.work.session = None /\ last_call.work.dispatched = {}
    /\ last_call.work.session # None => last_call.result = "allowed"
    /\ last_call.work.dispatched # {} => last_call.work.session # None

\* A request rejected on its identity's quota (429), after an earlier request
\* of the same identity was admitted and counted.
C28_Witness ==
    /\ last_call.result = "limited" /\ last_call.handler = "429"
    /\ last_call.work.session = None
    /\ \E k \in DOMAIN admitted : admitted[k].ip = last_call.ip

\* The caller's step out of its read (get_session and the checks).
LeavesRead(c) == mg_pc[c] = "read" /\ mg_pc'[c] # "read"

\* The record a call addresses does not exist, has no such model, or (for
\* complete_iteration and fail_iteration) no iteration of that index.
Missing(call, sess) ==
    \/ sess = None
    \/ call.model \notin DOMAIN sess.models
    \/ /\ call.op \in {"complete_iteration", "fail_iteration"}
       /\ FindIteration(sess.models[call.model].iterations, call.index) = 0

NotFoundErrors == {"Session not found", "Unknown model", "KeyError", "Iteration not found"}

C24_CreateSessionWritesNewRecord ==
    [][(mg_calls' # mg_calls /\ mg_store' # mg_store) =>
          \E sid \in MgrSessionIds :
              /\ mg_store[sid] = None /\ mg_store'[sid] # None
              /\ \A t \in MgrSessionIds \ {sid} : mg_store'[t] = mg_store[t]
              /\ mg_store'[sid].version = 1
              /\ mg_store'[sid].status = "pending"
              /\ {m \in ModelNames : mg_store'[sid].models[m].enabled} \in MgrEnabledLists
              /\ \A m \in ModelNames :
                    LET md == mg_store'[sid].models[m]
                    IN /\ md.iterations = <<>> /\ md.iterationCount = 0
                       /\ md.status = IF md.enabled THEN "pending" ELSE "disabled"]_vars

\* A session created beside one that already has iterations.
C24_Witness ==
    /\ mg_store["s1"] # None /\ mg_store["s1"].version > 1
    /\ mg_store["s2"] = NewSession({"flux"})

\* The caller's step that writes the record and returns.
Writes(c) == mg_pc[c] \in {"put", "force"} /\ mg_pc'[c] = "idle"

\* The session has exactly the models a and b enabled, each with one
\* iteration: a's completed with an image key, b's still in progress.
OneDoneOneRunning(sess, a, b) ==
    /\ {m \in ModelNames : sess.models[m].enabled} = {a, b}
    /\ Len(sess.models[a].iterations) = 1 /\ Len(sess.models[b].iterations) = 1
    /\ sess.models[a].iterations[1].status = "completed"
    /\ sess.models[b].iterations[1].status = "in_progress"

\* C25: with calls made one after another, complete_iteration stores the
\* iteration as completed with the image key and the duration given, and for
\* a session of two enabled models whose iterations were started, after
\* complete_iteration on a and then fail_iteration on b the record has a's
\* iteration completed with its key and duration, b's in error with the
\* message given, and overall status partial.
C25_CompleteThenFailIsPartial ==
    [][\A c \in Callers :
          Writes(c) =>
              LET call == mg_call[c]
                  before == mg_store[call.session_id]
                  after == mg_store'[call.session_id]
                  it(sess, m, idx) ==
                      sess.models[m].iterations[FindIteration(sess.models[m].iterations, idx)]
              IN /\ call.op = "complete_iteration" =>
                       /\ it(after, call.model, call.index).status = "completed"
                       /\ it(after, call.model, call.index).imageKey
                              = ImageKeyOf(call.model, call.index)
                       /\ it(after, call.model, call.index).duration = DurationOf(call.model)
                 /\ call.op = "fail_iteration" =>
                       \A a \in ModelNames \ {call.model} :
                           OneDoneOneRunning(before, a, call.model) =>
                               /\ after.models[a] = before.models[a]
                               /\ after.models[a].iterations[1].imageKey = ImageKeyOf(a, 0)
                               /\ after.models[a].iterations[1].duration = DurationOf(a)
                               /\ it(after, call.model, call.index).status = "error"
                               /\ it(after, call.model, call.index).error = ErrorOf(call.model)
                               /\ after.status = "partial"]_vars

\* The record after complete_iteration on flux and fail_iteration on recraft.
C25_Witness ==
    /\ mg_store["s1"] # None
    /\ mg_store["s1"].status = "partial"
    /\ Len(mg_store["s1"].models["flux"].iterations) = 1
    /\ mg_store["s1"].models["flux"].iterations[1].imageKey = ImageKeyOf("flux", 0)
    /\ Len(mg_store["s1"].models["recraft"].iterations) = 1
    /\ mg_store["s1"].models["recraft"].iterations[1].error = ErrorOf("recraft")
    /\ \A c \in Callers : mg_pc[c] = "idle"

\* add_iteration reads a record whose model is enabled and at the limit.
AtLimit(call, sess) ==
    /\ call.op = "add_iteration"
    /\ sess # None /\ call.model \in DOMAIN sess.models
    /\ sess.models[call.model].enabled
    /\ sess.models[call.model].iterationCount >= MAX_ITERATIONS

\* C26: no stored record has a model with iterationCount above
\* MAX_ITERATIONS, whatever the interleaving of add_iteration calls, and
\* add_iteration on a model at the limit raises and writes nothing.
C26_IterationCountWithinLimit ==
    [][/\ \A sid \in MgrSessionIds, m \in ModelNames :
             mg_store'[sid] # None =>
                 mg_store'[sid].models[m].iterationCount <= MAX_ITERATIONS
       /\ \A c \in Callers :
             (LeavesRead(c) /\ AtLimit(mg_call[c], mg_store[mg_call[c].session_id])) =>
                 /\ mg_result'[c] = "Iteration limit reached"
                 /\ mg_store' = mg_store
                 /\ mg_writes'[c] = 0]_vars

\* add_iteration refused on a model whose stored count is MAX_ITERATIONS.
C26_Witness ==
    /\ mg_store["s1"] # None
    /\ mg_store["s1"].models["flux"].iterationCount = MAX_ITERATIONS
    /\ \E c \in Callers : mg_result[c] = "Iteration limit reached"

\* The error texts stored on the unit's iterations.
StoredErrors ==
    {er_store.models["flux"].iterations[k].error :
        k \in 1..Len(er_store.models["flux"].iterations)} \ {NoValue}

\* The text still holds something sanitize_error_message would redact.
Unsanitized(message) == \E i \in 1..Len(message) : message[i] \in CredentialParts

\* C29: every error text stored on a unit has been through the credential
\* sanitization: no stored text holds a Bearer token, a credential key=value
\* pair, an sk- key or a long alphanumeric run of the exception's message.
C29_StoredErrorsSanitized ==
    \A message \in StoredErrors : ~Unsanitized(message)

\* C31: a call of add_iteration, complete_iteration or fail_iteration makes at
\* most MAX_RETRIES passes (read, version check, write); a version conflict
\* sends it to the next pass or, on the last pass, to one unconditional write
\* of the record that pass computed, after which it returns normally. No
\* conflict reaches the caller.
C31_BoundedRetriesThenForcedWrite ==
    [][\A c \in Callers :
         /\ mg_attempt'[c] < MAX_RETRIES
         /\ mg_pc'[c] = "force" => mg_attempt'[c] = MAX_RETRIES - 1
         /\ (mg_pc[c] = "check" /\ mg_pc'[c] # "check")
               => mg_pc'[c] \in {"read", "put", "force"}
         /\ (mg_pc[c] = "force" /\ mg_pc'[c] # "force")
               => /\ mg_pc'[c] = "idle"
                  /\ mg_result'[c] = "returned"
                  /\ mg_writes'[c] = 1
                  /\ mg_store'[mg_call[c].session_id] = mg_session[c]]_vars

\* A call whose three passes all met a conflict has returned after the forced
\* write.
C31_Witness ==
    \E c \in Callers : mg_forced[c] /\ mg_result[c] = "returned" /\ mg_writes[c] = 1

\* C32: add_entry makes at most max_retries conditional writes, each after a
\* fresh read; a rejected write sends it to the next pass or, on the last
\* pass, to one unconditional write; no rejection reaches the caller, and
\* right after the call's write the caller's entry is the last element of the
\* stored window.
C32_BoundedRetriesThenUnconditionalWrite ==
    [][\A p \in Appenders :
         /\ ctx_attempt'[p] < max_retries
         /\ ctx_pc'[p] = "force" => ctx_attempt'[p] = max_retries - 1
         /\ (ctx_pc[p] = "put" /\ ctx_pc'[p] = "get")
               => /\ ctx_attempt'[p] = ctx_attempt[p] + 1
                  /\ ctx_etag[p].read /\ ctx_s3' = ctx_s3
         /\ (ctx_pc[p] \in {"put", "force"} /\ ctx_pc'[p] = "idle" /\ ctx_s3' # ctx_s3)
               => /\ ctx_s3'.exists
                  /\ ctx_s3'.window[Len(ctx_s3'.window)] = ctx_entry[p]
         /\ (ctx_pc[p] = "force" /\ ctx_pc'[p] # "force") => ctx_pc'[p] = "idle"]_vars

\* A call whose three conditional writes were all rejected has made the
\* unconditional write and returned; its entry ends the stored window.
C32_Witness ==
    /\ ctx_forced
    /\ \A p \in Appenders : ctx_pc[p] = "idle"
    /\ ctx_s3.exists
    /\ ctx_s3.window[Len(ctx_s3.window)] = ctx_appended[Len(ctx_appended)]

\* C33: a unit is recorded in_progress (its add_iteration call has returned)
\* before its adapter is invoked; complete_iteration is called only with the
\* key upload_image returned for a successful adapter answer; and a unit whose
\* adapter succeeded and whose image was stored is, when the fan-out ends,
\* stored as completed with that key.
C33_CompletedAfterArtifactStored ==
    \A m \in enabled_models :
        /\ pc[m] \in {"handler", "hung", "upload", "add_entry"}
              => "add_iteration" \in call_done[m]
        /\ (op[m] = "complete_iteration" \/ "complete_iteration" \in call_done[m])
              => /\ adapter[m] = "success"
                 /\ image_key[m] = ImageKeyOf(m, iteration_index[m])
        /\ (main_pc = "returned" /\ adapter[m] = "success" /\ image_key[m] # NoValue)
              => /\ StoredIteration(m) # None
                 /\ StoredIteration(m).status = "completed"
                 /\ StoredIteration(m).imageKey = image_key[m]

\* The maxWorkers of a fan-out.
MaxWorkers(kind) ==
    IF kind = "execute_job" THEN executor_max_workers ELSE generate_max_workers

\* C34: at every moment of a fan-out the number of units whose tasks are
\* running is at most min(number of units, maxWorkers); no unit's task is
\* started twice, and when the fan-out ends every unit of the list has been
\* started once and no other.
C34_ConcurrencyBoundedEachUnitOnce ==
    pl_pc # "start" =>
        /\ Cardinality(Running) <= Min(pl_n, MaxWorkers(pl_kind))
        /\ \A u \in Units : pl_started[u] <= 1
        /\ \A u \in Units \ (1..pl_n) : pl_started[u] = 0
        /\ pl_pc = "returned" => \A u \in 1..pl_n : pl_started[u] = 1

\* More units than workers: the pool is full and a unit waits in the queue.
C34_Witness ==
    /\ pl_kind = "execute_job"
    /\ pl_n > executor_max_workers
    /\ Cardinality(Running) = executor_max_workers
    /\ Queued # {}

\* _load_rate_data_cached: the process's cached dict while it is fresh, else
\* what the store holds.
LoadedRateData(c) ==
    IF cache_data[c] # None /\ now - cache_timestamp[c] < CACHE_TTL_SECONDS
    THEN cache_data[c]
    ELSE load_rate_data(rl_s3)

C36_AtMostMaxRetriesPlusOneInvocations ==
    LET n == Len(rt_outcomes)
    IN /\ n <= rt_max_retries + 1
       /\ \A k \in 1..(n - 1) :
             rt_outcomes[k] \in FuncErrors /\ is_retryable_error(rt_outcomes[k])
       /\ rt_pc \in {"calling", "sleeping"} =>
             /\ n <= rt_max_retries
             /\ \A k \in 1..n :
                   rt_outcomes[k] \in FuncErrors /\ is_retryable_error(rt_outcomes[k])
       /\ rt_pc = "returned" =>
             /\ n >= 1 /\ rt_outcomes[n] \in FuncReturns
             /\ rt_result = rt_outcomes[n]
       /\ rt_pc = "raised" =>
             /\ n >= 1 /\ rt_outcomes[n] \in FuncErrors
             /\ rt_result = rt_outcomes[n]
             /\ ~is_retryable_error(rt_outcomes[n]) \/ n = rt_max_retries + 1

\* The wrapper has re-raised the retryable error of its last allowed
\* invocation, after at least one retry.
C36_Witness ==
    /\ rt_pc = "raised"
    /\ rt_max_retries >= 1
    /\ Len(rt_outcomes) = rt_max_retries + 1
    /\ is_retryable_error(rt_result)

\* C37: no two add_iteration calls on the same session and model return the
\* same iteration index.
C37_ReturnedIndicesDistinct ==
    \A c, d \in Callers :
        (/\ c # d
         /\ mg_index[c] # NoIndex /\ mg_index[d] # NoIndex
         /\ mg_index[c].session_id = mg_index[d].session_id
         /\ mg_index[c].model = mg_index[d].model)
            => mg_index[c].index # mg_index[d].index

\* C38: in every stored session record, for every model, iterationCount is
\* the number of entries of iterations and the entry at position k (from 0)
\* has index k.
C38_IterationsIndexedByPosition ==
    \A sid \in MgrSessionIds :
        mg_store[sid] # None =>
            \A m \in DOMAIN mg_store[sid].models :
                LET md == mg_store[sid].models[m]
                IN /\ md.iterationCount = Len(md.iterations)
                   /\ \A k \in 1..Len(md.iterations) : md.iterations[k].index = k - 1

\* An iteration one caller's add_iteration created has been completed or
\* failed in the stored record by another caller's call.
C38_Witness ==
    \E c, d \in Callers :
        /\ c # d
        /\ mg_index[c] # NoIndex
        /\ mg_index[d] = NoIndex /\ mg_result[d] = "returned" /\ mg_writes[d] = 1
        /\ LET md == mg_store[mg_index[c].session_id].models[mg_index[c].model]
           IN /\ md.iterationCount = mg_index[c].index + 1
              /\ md.iterations[md.iterationCount].status \in {"completed", "error"}

\* The first iteration of model m in the stored record, None when there is
\* none.
StoredFirstIteration(m) ==
    LET its == Stored.models[m].iterations
        k == FindIteration(its, 0)
    IN IF k = 0 THEN None ELSE its[k]

\* C39: when handle_generate returns, each model's outcome in the response
\* agrees with the stored session: a model reported as error has no completed
\* iteration 0 in the store, and a model reported as completed has iteration
\* 0 stored as completed with the image key of the response.
C39_ResponseAgreesWithStore ==
    main_pc = "returned" =>
        \A m \in enabled_models :
            /\ results[m].status = "error" =>
                   \/ StoredFirstIteration(m) = None
                   \/ StoredFirstIteration(m).status # "completed"
            /\ results[m].status = "completed" =>
                   /\ StoredFirstIteration(m) # None
                   /\ StoredFirstIteration(m).status = "completed"
                   /\ StoredFirstIteration(m).imageKey = results[m].imageKey

\* C40: add_entry(e) with no concurrent writer, on a key whose stored window
\* is w, stores the last WINDOW_SIZE elements of w followed by e, whatever
\* the read of the context object did.
C40_AppendKeepsStoredEntries ==
    [][\A p \in Appenders :
         (ctx_pc[p] \in {"put", "force"} /\ ctx_pc'[p] = "idle" /\ ctx_s3' # ctx_s3)
            => /\ ctx_s3'.exists
               /\ ctx_s3'.window = LastN(Append(StoredWindow, ctx_entry[p]), WINDOW_SIZE)]_vars

====
